---- MODULE Spec2Model ----
(***************************************************************************)
(* InkSage: the Generation Scheduler (src/src/workers/generation_worker.py)*)
(* the rolling text buffer with its debounce timer                         *)
(* (src/src/core/text_buffer.py) and the Keystroke Processor               *)
(* (src/src/core/keyboard_monitor.py).                                     *)
(*                                                                         *)
(* The scheduler is modelled thread by thread: the worker thread (run),    *)
(* the threads that call add_request (the debounce timer thread and the UI *)
(* thread), a thread that calls cancel_request and a thread that calls     *)
(* stop.  Every step is one access to shared state (one queue operation,   *)
(* one critical section of the mutex, one read or write of `running`).     *)
(***************************************************************************)
EXTENDS Integers, Sequences, FiniteSets, TLC

\* ------------------------------------------------------------ bounds
\* Capacity the application gives the queue:
\* config.get('performance.max_concurrent_requests', 2).
DefaultQueueSize == 2
\* Number of add_request calls in a run.
MaxRequests == 3
\* Number of cancel_request calls in a run.
MaxCancels == 1
\* Capacity of the rolling buffer (text.buffer_size).
max_size == 3
\* Minimum length for the debounce timer to be armed (text.min_context_length).
min_context_length == 2
\* Number of append / handle_backspace / clear calls in a run of the buffer.
MaxBufOps == 5
\* The debounce delay (text.debounce_delay), in clock ticks.
debounce_delay == 2
\* Number of clock ticks in a run.
MaxTime == 4
\* Number of buffer calls in a run with the debounce timers.
MaxCalls == 4
\* Number of key events the consumer handles in a run of the key logic.
MaxKeys == 4
\* Number of key events the OS hook delivers in a run of the monitor threads.
MaxHookEvents == 3
\* Number of start() calls, and of stop() calls, in a run.
MaxStarts == 2

\* Threads that call add_request: the debounce timer thread
\* (_handle_buffer_ready) and the UI thread (manual trigger, dialogs).
Adders == {"timer", "ui"}
\* Priorities the callers use: 1 manual, 2 automatic.
Priorities == {1, 2}
\* What Engine.generate does for a request: returns text, returns "", raises.
Outcomes == {"text", "empty", "raise"}
\* Texts a caller appends to the buffer (one key, or a dictated pair).
Texts == {<<"a">>, <<" ">>, <<"a", "b">>}
\* Characters str.strip() removes.
Whitespace == {" ", "\n", "\t"}

NoReq == [priority |-> 0, request_id |-> 0, timestamp |-> 0]

\* pynput keys: a special key (Key, with a name) or a character key
\* (KeyCode, with a char).
SpecialKey(name) == [kind |-> "Key", name |-> name, char |-> ""]
CharKey(char) == [kind |-> "KeyCode", name |-> "", char |-> char]
\* A queue entry (event_type, key), with the order in which it was enqueued.
KeyEvent(id, type, key) == [id |-> id, type |-> type, key |-> key]
NoEv == KeyEvent(0, "none", SpecialKey(""))

VARIABLES
    \* GenerationWorker fields
    max_queue_size,     \* self.max_queue_size, the maxsize of the queue
    request_queue,      \* queue.PriorityQueue: the heap list, root first
    running,            \* self.running
    current_request,    \* self.current_request (request_id, 0 for None)
    engine,             \* self.engine is set
    active_requests,    \* self.active_requests
    processed_requests, \* self.processed_requests
    failed_requests,    \* self.failed_requests
    mutex,              \* self.mutex: "free" or the thread holding it
    woken,              \* self.condition: the waiting worker has been woken
    \* threads
    wpc,                \* worker thread: position in run()
    apc, aReq, aTemp,   \* add_request callers: position, request, temp_items
    cpc, cId, cTemp, cFound, \* cancel_request caller: position, id, locals
    spc,                \* stop() caller: position
    \* history
    nextId,             \* number of GenerationRequest objects created so far
    cancels,            \* number of cancel_request calls so far
    emitted,            \* what the worker's latest step emitted, in order
    open,               \* ids with a started event and no terminal event yet
    started,            \* ids with a started event
    termCount,          \* per id, the number of terminal events emitted
    rejected,           \* ids for which add_request returned False
    evicted,            \* ids dropped by _remove_low_priority_request
    cancelled,          \* ids removed by cancel_request
    cBusy,              \* the running cancel_request names the request in process
    cMiss,              \* the running cancel_request names an id not queued
    \* TextBuffer fields
    buffer,             \* self.buffer
    session_chars,      \* self.session_chars
    debounce_timer,     \* self.debounce_timer: index in timers, 0 for None
    \* history of the buffer
    logical,            \* all appended text, each backspace deleting the last
    bufOps,             \* number of buffer calls so far
    \* debounce
    timers,             \* the threading.Timer objects created, in order
    now,                \* the clock, in ticks
    callAt,             \* clock at which the buffer call in progress was
                        \* made, -1 when no call is in progress
    \* history of the debounce
    calls,              \* the on_context_ready invocations, in order
    lastOp,             \* kind of the latest buffer call
    lastAt,             \* clock at the latest buffer call
    burst,              \* every call so far is an append, each less than
                        \* debounce_delay after the one before
    clearMark,          \* number of timers created before the latest clear()
    \* KeyboardMonitor fields
    kb_running,         \* self.running
    paused,             \* self.paused
    stop_event,         \* self.stop_event is set
    listener,           \* self.listener is a started Listener
    input_queue,        \* self.input_queue, oldest event first
    current_modifiers,  \* self.current_modifiers
    \* keyboard threads
    procs,              \* the _process_queue threads start() created
    ppc,                \* the OS hook callback: position and its event
    \* history of the keyboard
    evCount,            \* number of key events enqueued so far
    starts,             \* number of start() calls so far
    stops,              \* number of stop() calls so far
    handled,            \* ids of the events handled, in handling order
    lastEv,             \* the event handled latest
    hotkey_triggered,   \* hotkey_triggered emissions of the latest event
    text_captured,      \* text_captured emissions of the latest event
    \* _parse_hotkeys
    hk_str,             \* one value of self.hotkeys, character by character
    hk_parsed,          \* the entry _parse_hotkeys built for it
    \* ContextSniffer fields
    roles_config,       \* self.roles_config, in dictionary order
    cx_running,         \* self._running
    cx_thread,          \* self._thread: index in cx_threads, 0 for None
    last_window_title,  \* self._last_window_title
    last_role,          \* self._last_role
    \* sniffer threads
    cx_threads,         \* the _monitor_loop threads start() created
    cx_spc,             \* stop() caller: position
    \* history of the sniffer
    cx_calls,           \* numbers of start() and of stop() calls so far
    context_changed,    \* the context_changed emissions, in order
    \* WritingAssistant fields
    enabled,            \* self.enabled
    is_paused,          \* self.is_paused
    last_suggestion_time, \* self.last_suggestion_time
    assistant_requests, \* self.active_requests of the assistant: id -> tag
    current_app_context, \* self.current_app_context
    \* assistant threads
    hpc,                \* per on_context_ready call: position in
                        \* _handle_buffer_ready and what it read
    \* history of the assistant
    built,              \* the GenerationRequests _request_generation built
    completed,          \* ids whose completion or failure was handled
    lastDone,           \* the completion event handled latest
    suggestion_ready,   \* suggestion_ready emissions of that event
    \* configuration
    default_role,       \* context_awareness.default_role
    \* the KeyboardMonitor of InkSageApp (main.py), on the same TextBuffer
    app_running,        \* its self.running
    app_queue,          \* its self.input_queue, oldest event first
    app_proc,           \* its _process_queue thread: position and event
    app_modifiers,      \* its self.current_modifiers
    app_hotkey,         \* its hotkey_triggered emissions of the latest event
    \* the main thread
    main_queue,         \* text_captured emissions not yet delivered
    cx_delivered,       \* number of context_changed emissions delivered
    recorded,           \* ids put in the assistant's table so far
    owed,               \* per add_request caller, the id whose add_request
                        \* returned True and is not yet in the table, else 0
    \* the keyboard itself
    held,               \* names of the modifier keys physically held
    typed               \* what the key presses of the OS hook spell

schedVars == <<max_queue_size, request_queue, running, current_request,
               engine, active_requests, processed_requests, failed_requests,
               mutex, woken, wpc, apc, aReq, aTemp, cpc, cId, cTemp, cFound,
               spc, nextId, cancels, emitted, open, started, termCount,
               rejected, evicted, cancelled, cBusy, cMiss>>
bufVars == <<buffer, session_chars, debounce_timer, logical, bufOps>>
tmVars == <<timers, now, callAt, calls, lastOp, lastAt, burst, clearMark>>
kbVars == <<kb_running, paused, stop_event, listener, input_queue,
            current_modifiers, procs, ppc, evCount, starts, stops, handled,
            lastEv, hotkey_triggered, text_captured>>
psVars == <<hk_str, hk_parsed>>
cxVars == <<roles_config, cx_running, cx_thread, last_window_title, last_role,
            cx_threads, cx_spc, cx_calls, context_changed>>
orVars == <<enabled, is_paused, last_suggestion_time, assistant_requests,
            current_app_context, hpc, built, completed, lastDone,
            suggestion_ready>>
extVars == <<psVars, cxVars, orVars>>
appVars == <<default_role, app_running, app_queue, app_proc, app_modifiers,
             app_hotkey, main_queue, cx_delivered, recorded, owed>>
hookVars == <<held, typed>>
newVars == <<appVars, hookVars>>
otherVars == <<bufVars, tmVars, kbVars, extVars, newVars>>
vars == <<schedVars, bufVars, tmVars, kbVars, extVars, newVars>>

\* ------------------------------------------------------------ helpers
Range(s) == {s[i] : i \in 1..Len(s)}
Ids(s) == {s[i].request_id : i \in 1..Len(s)}

\* GenerationRequest: @dataclass(order=True) where every field but `priority`
\* is declared compare=False, so __lt__ compares the priorities alone.
RequestLt(a, b) == a.priority < b.priority

\* heapq._siftdown(heap, 0, pos) with newitem travelling towards the root.
RECURSIVE SiftDown(_, _, _)
SiftDown(h, pos, newitem) ==
    IF pos > 1 /\ RequestLt(newitem, h[pos \div 2])
    THEN SiftDown([h EXCEPT ![pos] = h[pos \div 2]], pos \div 2, newitem)
    ELSE [h EXCEPT ![pos] = newitem]

\* heapq._siftup(heap, pos): bubble the smaller child up to a leaf, then
\* sift newitem down from that leaf.
RECURSIVE SiftUp(_, _, _)
SiftUp(h, pos, newitem) ==
    LET childpos == 2 * pos
        rightpos == childpos + 1
    IN IF childpos <= Len(h)
       THEN LET c == IF rightpos <= Len(h) /\ ~RequestLt(h[childpos], h[rightpos])
                     THEN rightpos ELSE childpos
            IN SiftUp([h EXCEPT ![pos] = h[c]], c, newitem)
       ELSE SiftDown(h, pos, newitem)

\* heapq.heappush, as PriorityQueue._put calls it.
HeapPush(h, item) == SiftDown(Append(h, item), Len(h) + 1, item)

\* heapq.heappop, as PriorityQueue._get calls it: the item returned ...
HeapTop(h) == h[1]
\* ... and the heap left behind.
HeapRest(h) ==
    IF Len(h) = 1 THEN <<>>
    ELSE SiftUp(SubSeq(h, 1, Len(h) - 1), 1, h[Len(h)])

\* PriorityQueue.full() and .empty()
QFull(q) == Len(q) >= max_queue_size
QEmpty(q) == Len(q) = 0

\* The sort key of _remove_low_priority_request: (priority, timestamp).
KeyLe(a, b) ==
    \/ a.priority < b.priority
    \/ a.priority = b.priority /\ a.timestamp <= b.timestamp

\* list.sort(key=...): a stable insertion of x into the sorted list s.
RECURSIVE InsertSorted(_, _)
InsertSorted(s, x) ==
    IF s = <<>> THEN <<x>>
    ELSE IF KeyLe(s[Len(s)], x) THEN Append(s, x)
    ELSE Append(InsertSorted(SubSeq(s, 1, Len(s) - 1), x), s[Len(s)])

RECURSIVE SortItems(_)
SortItems(s) ==
    IF s = <<>> THEN <<>>
    ELSE InsertSorted(SortItems(SubSeq(s, 1, Len(s) - 1)), s[Len(s)])

\* temp_items.sort(...); temp_items.pop(): what is left to refill.
KeepAfterDrop(items) ==
    LET sorted == SortItems(items)
    IN IF sorted = <<>> THEN <<>> ELSE SubSeq(sorted, 1, Len(sorted) - 1)

\* The item temp_items.pop() removed.
DroppedIds(items) == Ids(items) \ Ids(KeepAfterDrop(items))

\* ------------------------------------------------------------ Init
\* The configuration with context_awareness.default_role = role; the
\* KeyboardMonitor of InkSageApp not yet constructed; no key held.
ConfigInit(role) ==
    /\ default_role = role
    /\ app_running = FALSE
    /\ app_queue = <<>>
    /\ app_proc = [pc |-> "c_none", ev |-> NoEv]
    /\ app_modifiers = {}
    /\ app_hotkey = <<>>
    /\ main_queue = <<>>
    /\ cx_delivered = 0
    /\ recorded = {}
    /\ owed = [t \in Adders |-> 0]
    /\ held = {}
    /\ typed = <<>>
\* self.suggestion_cooldown: text.debounce_delay, the delay of the buffer.
suggestion_cooldown == debounce_delay
\* No completion event handled yet.
NoDone == [kind |-> "none", id |-> 0, result |-> <<>>, tracked |-> FALSE]
\* A call of _handle_buffer_ready that has not begun.
NoHandler == [pc |-> "h_new", at |-> 0, id |-> 0]

\* KeyboardMonitor.__init__: the hotkey string to be parsed.
ParserInit(str) ==
    /\ hk_str = str
    /\ hk_parsed = [state |-> "unparsed", modifiers |-> <<>>, key |-> <<>>]

\* ContextSniffer.__init__ with context_awareness.roles = table.
SnifferInit(table) ==
    /\ roles_config = table
    /\ cx_running = FALSE
    /\ cx_thread = 0
    /\ last_window_title = <<>>
    /\ last_role = default_role
    /\ cx_threads = <<>>
    /\ cx_spc = "s_idle"
    /\ cx_calls = [starts |-> 0, stops |-> 0]
    /\ context_changed = <<>>

\* WritingAssistant.__init__
AssistantInit ==
    /\ enabled = TRUE
    /\ is_paused = FALSE
    /\ last_suggestion_time = 0
    /\ assistant_requests = <<>>
    /\ current_app_context = "general"
    /\ hpc = [i \in 1..MaxBufOps |-> NoHandler]
    /\ built = <<>>
    /\ completed = {}
    /\ lastDone = NoDone
    /\ suggestion_ready = <<>>

\* GenerationWorker.__init__, with the worker thread at position pc.
SchedInitAt(capacity, pc) ==
    /\ max_queue_size = capacity
    /\ request_queue = <<>>
    /\ running = FALSE
    /\ current_request = 0
    /\ engine = FALSE
    /\ active_requests = {}
    /\ processed_requests = 0
    /\ failed_requests = 0
    /\ mutex = "free"
    /\ woken = FALSE
    /\ wpc = pc
    /\ apc = [t \in Adders |-> "a_idle"]
    /\ aReq = [t \in Adders |-> NoReq]
    /\ aTemp = [t \in Adders |-> <<>>]
    /\ cpc = "c_idle"
    /\ cId = 0
    /\ cTemp = <<>>
    /\ cFound = FALSE
    /\ spc = "s_idle"
    /\ nextId = 0
    /\ cancels = 0
    /\ emitted = <<>>
    /\ open = {}
    /\ started = {}
    /\ termCount = [i \in 1..MaxRequests |-> 0]
    /\ rejected = {}
    /\ evicted = {}
    /\ cancelled = {}
    /\ cBusy = FALSE
    /\ cMiss = FALSE

\* GenerationWorker.__init__ and start(): run() is about to construct the
\* engine.
SchedInit(capacity) == SchedInitAt(capacity, "w_init")

\* TextBuffer.__init__
BufferInit ==
    /\ buffer = <<>>
    /\ session_chars = 0
    /\ debounce_timer = 0
    /\ logical = <<>>
    /\ bufOps = 0
    /\ timers = <<>>
    /\ now = 0
    /\ callAt = -1
    /\ calls = <<>>
    /\ lastOp = "none"
    /\ lastAt = 0
    /\ burst = TRUE
    /\ clearMark = 0

\* KeyboardMonitor.__init__
KeyboardInit ==
    /\ kb_running = FALSE
    /\ paused = FALSE
    /\ stop_event = FALSE
    /\ listener = FALSE
    /\ input_queue = <<>>
    /\ current_modifiers = {}
    /\ procs = <<>>
    /\ ppc = [pc |-> "p_idle", ev |-> NoEv]
    /\ evCount = 0
    /\ starts = 0
    /\ stops = 0
    /\ handled = <<>>
    /\ lastEv = NoEv
    /\ hotkey_triggered = <<>>
    /\ text_captured = <<>>

\* The scheduler, the buffer and the keyboard monitor as constructed.
CoreInit(capacity) ==
    /\ ConfigInit("general")
    /\ SchedInit(capacity)
    /\ BufferInit
    /\ KeyboardInit

\* All objects as constructed, with the configuration defaults: no hotkey
\* string, context_awareness.roles = {}.
InitWith(capacity) ==
    /\ CoreInit(capacity)
    /\ ParserInit(<<>>)
    /\ SnifferInit(<<>>)
    /\ AssistantInit

\* GenerationWorker(max_queue_size) as WritingAssistant constructs it.
Init == InitWith(DefaultQueueSize)

\* ------------------------------------------------------------ events
Ev(type, id, info) == [type |-> type, id |-> id, info |-> info]
Terminal == {"completed", "failed"}

StartedIn(evs) == {evs[i].id : i \in {j \in 1..Len(evs) : evs[j].type = "started"}}
TerminalIn(evs) == {evs[i].id : i \in {j \in 1..Len(evs) : evs[j].type \in Terminal}}
TerminalsFor(evs, id) ==
    Cardinality({j \in 1..Len(evs) : evs[j].type \in Terminal /\ evs[j].id = id})

\* The worker's step emits evs: the history follows.
Emit(evs) ==
    /\ emitted' = evs
    /\ open' = (open \cup StartedIn(evs)) \ TerminalIn(evs)
    /\ started' = started \cup StartedIn(evs)
    /\ termCount' = [i \in DOMAIN termCount |->
                        termCount[i] + TerminalsFor(evs, i)]

\* condition.wakeOne(): wakes the worker if it waits, else does nothing.
WakeOne == woken' = (woken \/ wpc = "w_wait")

\* ------------------------------------------------------------ worker: run()
\* _process_request without the emit of its `else` branch: an empty result
\* ends the request with no event.
ProcessRequestSilent(id, o) ==
    IF ~engine
    THEN <<Ev("failed", id, "Engine not initialized")>>
    ELSE <<Ev("generate", id, o)>> \o
         ( IF o = "raise" THEN <<Ev("failed", id, "exception")>>
           ELSE IF o = "text" THEN <<Ev("completed", id, "text")>>
           ELSE <<>> )

\* _process_request testing `result is not None` instead of `result`: an empty
\* result is reported as completed.
ProcessRequestNotNone(id, o) ==
    IF ~engine
    THEN <<Ev("failed", id, "Engine not initialized")>>
    ELSE <<Ev("generate", id, o)>> \o
         ( IF o = "raise" THEN <<Ev("failed", id, "exception")>>
           ELSE <<Ev("completed", id, IF o = "text" THEN "text" ELSE "")>> )

\* _process_request: the events it emits for request id when engine.generate
\* ends with outcome o.
ProcessRequest(id, o) ==
    IF ~engine
    THEN <<Ev("failed", id, "Engine not initialized")>>
    ELSE <<Ev("generate", id, o)>> \o
         ( IF o = "raise" THEN <<Ev("failed", id, "exception")>>
           ELSE IF o = "text" THEN <<Ev("completed", id, "text")>>
           ELSE <<Ev("failed", id, "No text generated")>> )

\* The value _process_request returns.
ProcessSuccess(id, o) == engine /\ o = "text"

\* Engine() constructed and available: self.running = True, enter the loop.
WorkerInit ==
    /\ wpc = "w_init"
    /\ engine' = TRUE
    /\ running' = TRUE
    /\ wpc' = "w_while"
    /\ UNCHANGED <<max_queue_size, request_queue, current_request,
                   active_requests, processed_requests, failed_requests, mutex,
                   woken, apc, aReq, aTemp, cpc, cId, cTemp, cFound, spc, nextId,
                   cancels, emitted, open, started, termCount, rejected, evicted,
                   cancelled, cBusy, cMiss, otherVars>>

\* Engine() raised or is not available: run() returns before the loop.
WorkerInitFails ==
    /\ wpc = "w_init"
    /\ wpc' = "w_exit"
    /\ UNCHANGED <<max_queue_size, request_queue, running, current_request,
                   engine, active_requests, processed_requests, failed_requests,
                   mutex, woken, apc, aReq, aTemp, cpc, cId, cTemp, cFound, spc,
                   nextId, cancels, emitted, open, started, termCount, rejected,
                   evicted, cancelled, cBusy, cMiss, otherVars>>

\* while self.running: (after the loop: engine.cleanup(), the thread ends)
WorkerWhile ==
    /\ wpc = "w_while"
    /\ wpc' = IF running THEN "w_lock" ELSE "w_exit"
    /\ emitted' = <<>>
    /\ UNCHANGED <<max_queue_size, request_queue, running, current_request,
                   engine, active_requests, processed_requests, failed_requests,
                   mutex, woken, apc, aReq, aTemp, cpc, cId, cTemp, cFound, spc,
                   nextId, cancels, open, started, termCount, rejected, evicted,
                   cancelled, cBusy, cMiss, otherVars>>

\* mutex.lock(); if request_queue.empty(): condition.wait(mutex) releases the
\* mutex and blocks; otherwise mutex.unlock().
WorkerLock ==
    /\ wpc = "w_lock"
    /\ mutex = "free"
    /\ wpc' = IF QEmpty(request_queue) THEN "w_wait" ELSE "w_chk"
    /\ UNCHANGED <<max_queue_size, request_queue, running, current_request,
                   engine, active_requests, processed_requests, failed_requests,
                   mutex, woken, apc, aReq, aTemp, cpc, cId, cTemp, cFound, spc,
                   nextId, cancels, emitted, open, started, termCount, rejected,
                   evicted, cancelled, cBusy, cMiss, otherVars>>

\* condition.wait returns: woken by wakeOne and the mutex re-acquired; then
\* mutex.unlock().
WorkerWake ==
    /\ wpc = "w_wait"
    /\ woken
    /\ mutex = "free"
    /\ woken' = FALSE
    /\ wpc' = "w_chk"
    /\ UNCHANGED <<max_queue_size, request_queue, running, current_request,
                   engine, active_requests, processed_requests, failed_requests,
                   mutex, apc, aReq, aTemp, cpc, cId, cTemp, cFound, spc, nextId,
                   cancels, emitted, open, started, termCount, rejected, evicted,
                   cancelled, cBusy, cMiss, otherVars>>

\* if not self.running: break
WorkerCheck ==
    /\ wpc = "w_chk"
    /\ wpc' = IF running THEN "w_get" ELSE "w_exit"
    /\ UNCHANGED <<max_queue_size, request_queue, running, current_request,
                   engine, active_requests, processed_requests, failed_requests,
                   mutex, woken, apc, aReq, aTemp, cpc, cId, cTemp, cFound, spc,
                   nextId, cancels, emitted, open, started, termCount, rejected,
                   evicted, cancelled, cBusy, cMiss, otherVars>>

\* request_queue.get(block=False): queue.Empty -> continue; otherwise the
\* request becomes current and generation_started is emitted.
WorkerGet ==
    /\ wpc = "w_get"
    /\ IF QEmpty(request_queue)
       THEN /\ wpc' = "w_while"
            /\ UNCHANGED <<request_queue, current_request, active_requests,
                           emitted, open, started, termCount>>
       ELSE /\ request_queue' = HeapRest(request_queue)
            /\ current_request' = HeapTop(request_queue).request_id
            /\ active_requests' =
                   active_requests \cup {HeapTop(request_queue).request_id}
            /\ Emit(<<Ev("started", HeapTop(request_queue).request_id, "")>>)
            /\ wpc' = "w_proc"
    /\ UNCHANGED <<max_queue_size, running, engine, processed_requests,
                   failed_requests, mutex, woken, apc, aReq, aTemp, cpc, cId,
                   cTemp, cFound, spc, nextId, cancels, rejected, evicted,
                   cancelled, cBusy, cMiss, otherVars>>

\* _process_request(request), then the statistics and the clean-up.
WorkerProcess ==
    /\ wpc = "w_proc"
    /\ \E o \in Outcomes :
          /\ Emit(ProcessRequest(current_request, o))
          /\ IF ProcessSuccess(current_request, o)
             THEN /\ processed_requests' = processed_requests + 1
                  /\ UNCHANGED failed_requests
             ELSE /\ failed_requests' = failed_requests + 1
                  /\ UNCHANGED processed_requests
    /\ active_requests' = active_requests \ {current_request}
    /\ current_request' = 0
    /\ wpc' = "w_while"
    /\ UNCHANGED <<max_queue_size, request_queue, running, engine, mutex, woken,
                   apc, aReq, aTemp, cpc, cId, cTemp, cFound, spc, nextId,
                   cancels, rejected, evicted, cancelled, cBusy, cMiss, otherVars>>

\* ------------------------------------------------------------ add_request
\* The caller builds GenerationRequest(priority=p) (timestamp = time.time())
\* and calls add_request, which tests request_queue.full().
AddCall(t) ==
    /\ apc[t] = "a_idle"
    /\ nextId < MaxRequests
    /\ \E p \in Priorities :
          aReq' = [aReq EXCEPT ![t] = [priority |-> p,
                                       request_id |-> nextId + 1,
                                       timestamp |-> nextId + 1]]
    /\ nextId' = nextId + 1
    /\ apc' = [apc EXCEPT ![t] =
                  IF QFull(request_queue) THEN "a_drain" ELSE "a_put"]
    /\ UNCHANGED <<max_queue_size, request_queue, running, current_request,
                   engine, active_requests, processed_requests, failed_requests,
                   mutex, woken, wpc, aTemp, cpc, cId, cTemp, cFound, spc,
                   cancels, emitted, open, started, termCount, rejected, evicted,
                   cancelled, cBusy, cMiss, otherVars>>

\* _remove_low_priority_request, one turn of its drain loop: while the queue
\* is not empty, get(block=False) into temp_items; once it is empty, sort
\* temp_items by (priority, timestamp) and pop() the last.
AddDrain(t) ==
    /\ apc[t] = "a_drain"
    /\ IF QEmpty(request_queue)
       THEN /\ aTemp' = [aTemp EXCEPT ![t] = KeepAfterDrop(aTemp[t])]
            /\ evicted' = evicted \cup DroppedIds(aTemp[t])
            /\ apc' = [apc EXCEPT ![t] =
                          IF KeepAfterDrop(aTemp[t]) = <<>>
                          THEN "a_put" ELSE "a_refill"]
            /\ UNCHANGED request_queue
       ELSE /\ aTemp' = [aTemp EXCEPT ![t] =
                            Append(aTemp[t], HeapTop(request_queue))]
            /\ request_queue' = HeapRest(request_queue)
            /\ UNCHANGED <<evicted, apc>>
    /\ UNCHANGED <<max_queue_size, running, current_request, engine,
                   active_requests, processed_requests, failed_requests, mutex,
                   woken, wpc, aReq, cpc, cId, cTemp, cFound, spc, nextId,
                   cancels, emitted, open, started, termCount, rejected,
                   cancelled, cBusy, cMiss, otherVars>>

\* _remove_low_priority_request, one turn of its refill loop: put(item), which
\* blocks while the queue is full.
AddRefill(t) ==
    /\ apc[t] = "a_refill"
    /\ ~QFull(request_queue)
    /\ request_queue' = HeapPush(request_queue, Head(aTemp[t]))
    /\ aTemp' = [aTemp EXCEPT ![t] = Tail(aTemp[t])]
    /\ apc' = [apc EXCEPT ![t] =
                  IF Tail(aTemp[t]) = <<>> THEN "a_put" ELSE "a_refill"]
    /\ UNCHANGED <<max_queue_size, running, current_request, engine,
                   active_requests, processed_requests, failed_requests, mutex,
                   woken, wpc, aReq, cpc, cId, cTemp, cFound, spc, nextId,
                   cancels, emitted, open, started, termCount, rejected, evicted,
                   cancelled, cBusy, cMiss, otherVars>>

\* request_queue.put(request, block=False): queue.Full is caught by the
\* except clause, which returns False.
AddPut(t) ==
    /\ apc[t] = "a_put"
    /\ IF QFull(request_queue)
       THEN /\ rejected' = rejected \cup {aReq[t].request_id}
            /\ apc' = [apc EXCEPT ![t] = "a_idle"]
            /\ aReq' = [aReq EXCEPT ![t] = NoReq]
            /\ UNCHANGED request_queue
       ELSE /\ request_queue' = HeapPush(request_queue, aReq[t])
            /\ apc' = [apc EXCEPT ![t] = "a_wake"]
            /\ UNCHANGED <<rejected, aReq>>
    /\ UNCHANGED <<max_queue_size, running, current_request, engine,
                   active_requests, processed_requests, failed_requests, mutex,
                   woken, wpc, aTemp, cpc, cId, cTemp, cFound, spc, nextId,
                   cancels, emitted, open, started, termCount, evicted,
                   cancelled, cBusy, cMiss, otherVars>>

\* mutex.lock(); condition.wakeOne(); mutex.unlock(); return True
AddWake(t) ==
    /\ apc[t] = "a_wake"
    /\ mutex = "free"
    /\ WakeOne
    /\ apc' = [apc EXCEPT ![t] = "a_idle"]
    /\ aReq' = [aReq EXCEPT ![t] = NoReq]
    /\ UNCHANGED <<max_queue_size, request_queue, running, current_request,
                   engine, active_requests, processed_requests, failed_requests,
                   mutex, wpc, aTemp, cpc, cId, cTemp, cFound, spc, nextId,
                   cancels, emitted, open, started, termCount, rejected, evicted,
                   cancelled, cBusy, cMiss, otherVars>>

\* ------------------------------------------------------------ cancel_request
\* An id no request carries.
UnknownId == MaxRequests + 1

\* cancel_request(id): mutex.lock(); temp_items = []; found = False
CancelCall ==
    /\ cpc = "c_idle"
    /\ cancels < MaxCancels
    /\ mutex = "free"
    /\ \E id \in (1..nextId) \cup {UnknownId} :
          /\ cId' = id
          /\ cBusy' = (current_request = id)
          /\ cMiss' = (id \notin Ids(request_queue))
    /\ mutex' = "cancel"
    /\ cancels' = cancels + 1
    /\ cpc' = "c_drain"
    /\ UNCHANGED <<max_queue_size, request_queue, running, current_request,
                   engine, active_requests, processed_requests, failed_requests,
                   woken, wpc, apc, aReq, aTemp, cTemp, cFound, spc, nextId,
                   emitted, open, started, termCount, rejected, evicted,
                   cancelled, otherVars>>

\* The drain loop without its `else` branch: no item is kept for the refill.
CancelKeepNothing(temp, item, id) == temp

\* What the drain loop does with the item it got: temp_items afterwards.
CancelKeep(temp, item, id) ==
    IF item.request_id = id THEN temp ELSE Append(temp, item)

\* One turn of the drain loop, under the mutex: get(block=False); the item
\* with the id sets found, every other item goes to temp_items.
CancelDrain ==
    /\ cpc = "c_drain"
    /\ IF QEmpty(request_queue)
       THEN /\ cpc' = "c_refill"
            /\ UNCHANGED <<request_queue, cTemp, cFound, cancelled>>
       ELSE /\ request_queue' = HeapRest(request_queue)
            /\ cTemp' = CancelKeep(cTemp, HeapTop(request_queue), cId)
            /\ cFound' = (cFound \/ HeapTop(request_queue).request_id = cId)
            /\ cancelled' = IF HeapTop(request_queue).request_id = cId
                            THEN cancelled \cup {cId} ELSE cancelled
            /\ UNCHANGED cpc
    /\ UNCHANGED <<max_queue_size, running, current_request, engine,
                   active_requests, processed_requests, failed_requests, mutex,
                   woken, wpc, apc, aReq, aTemp, cId, spc, nextId, cancels,
                   emitted, open, started, termCount, rejected, evicted, cBusy,
                   cMiss, otherVars>>

\* One turn of the refill loop, still under the mutex: put(item), which
\* blocks while the queue is full; after the last, mutex.unlock() and return
\* found.
CancelRefill ==
    /\ cpc = "c_refill"
    /\ IF cTemp = <<>>
       THEN /\ mutex' = "free"
            /\ cpc' = "c_idle"
            /\ cId' = 0
            /\ cFound' = FALSE
            /\ cBusy' = FALSE
            /\ cMiss' = FALSE
            /\ UNCHANGED <<request_queue, cTemp>>
       ELSE /\ ~QFull(request_queue)
            /\ request_queue' = HeapPush(request_queue, Head(cTemp))
            /\ cTemp' = Tail(cTemp)
            /\ UNCHANGED <<mutex, cpc, cId, cFound, cBusy, cMiss>>
    /\ UNCHANGED <<max_queue_size, running, current_request, engine,
                   active_requests, processed_requests, failed_requests, woken,
                   wpc, apc, aReq, aTemp, spc, nextId, cancels, emitted, open,
                   started, termCount, rejected, evicted, cancelled, otherVars>>

\* ------------------------------------------------------------ stop
\* self.running = False
StopCall ==
    /\ spc = "s_idle"
    /\ running' = FALSE
    /\ spc' = "s_wake"
    /\ UNCHANGED <<max_queue_size, request_queue, current_request, engine,
                   active_requests, processed_requests, failed_requests, mutex,
                   woken, wpc, apc, aReq, aTemp, cpc, cId, cTemp, cFound, nextId,
                   cancels, emitted, open, started, termCount, rejected, evicted,
                   cancelled, cBusy, cMiss, otherVars>>

\* mutex.lock(); condition.wakeOne(); mutex.unlock()
StopWake ==
    /\ spc = "s_wake"
    /\ mutex = "free"
    /\ WakeOne
    /\ spc' = "s_join"
    /\ UNCHANGED <<max_queue_size, request_queue, running, current_request,
                   engine, active_requests, processed_requests, failed_requests,
                   mutex, wpc, apc, aReq, aTemp, cpc, cId, cTemp, cFound, nextId,
                   cancels, emitted, open, started, termCount, rejected, evicted,
                   cancelled, cBusy, cMiss, otherVars>>

\* self.wait(): returns once the worker thread has ended.
StopJoin ==
    /\ spc = "s_join"
    /\ wpc = "w_exit"
    /\ spc' = "s_done"
    /\ UNCHANGED <<max_queue_size, request_queue, running, current_request,
                   engine, active_requests, processed_requests, failed_requests,
                   mutex, woken, wpc, apc, aReq, aTemp, cpc, cId, cTemp, cFound,
                   nextId, cancels, emitted, open, started, termCount, rejected,
                   evicted, cancelled, cBusy, cMiss, otherVars>>

\* ------------------------------------------------------------ scheduler spec
WorkerNext ==
    \/ WorkerInit
    \/ WorkerInitFails
    \/ WorkerWhile
    \/ WorkerLock
    \/ WorkerWake
    \/ WorkerCheck
    \/ WorkerGet
    \/ WorkerProcess

\* The steps of calls already made (not the making of a new call).
CallSteps ==
    \/ \E t \in Adders : AddDrain(t) \/ AddRefill(t) \/ AddPut(t) \/ AddWake(t)
    \/ CancelDrain
    \/ CancelRefill
    \/ StopWake
    \/ StopJoin

Next ==
    \/ WorkerNext
    \/ \E t \in Adders : AddCall(t)
    \/ CallSteps
    \/ CancelCall
    \/ StopCall

Spec == Init /\ [][Next]_vars

\* ------------------------------------------------------------ ordering spec
\* One caller enqueues a sequence of requests and the capacity is never
\* reached (it equals the number of requests of the run), so add_request
\* never evicts: the order in which the worker starts requests is then the
\* order of the priority queue alone.
OrderInit == InitWith(MaxRequests)

OrderNext ==
    \/ WorkerNext
    \/ AddCall("ui")
    \/ AddPut("ui")
    \/ AddWake("ui")

OrderSpec == OrderInit /\ [][OrderNext]_vars

\* ------------------------------------------------------------ TextBuffer
\* Python's s[-n:]: the last n items, and (as -0 is 0) all of s when n = 0.
LastN(s, n) ==
    IF n = 0 \/ n >= Len(s) THEN s ELSE SubSeq(s, Len(s) - n + 1, Len(s))

\* The wrong end: s[1:].
ButFirst(s) == IF s = <<>> THEN <<>> ELSE Tail(s)

\* Python's s[:-1]
ButLast(s) == IF s = <<>> THEN <<>> ELSE SubSeq(s, 1, Len(s) - 1)

\* The rolling window cut at the wrong end: buffer[:max_size].
RollHead(buf) == IF Len(buf) > max_size THEN SubSeq(buf, 1, max_size) ELSE buf

\* append's rolling window: keep the last max_size characters.
Roll(buf) == IF Len(buf) > max_size THEN LastN(buf, max_size) ELSE buf

\* _reset_debounce starts a new timer only if the buffer holds at least
\* min_context_length characters.
ResetDebounce(buf) == Len(buf) >= min_context_length

\* str.strip(): the text without its leading and trailing whitespace.
RECURSIVE LStrip(_)
LStrip(s) == IF s # <<>> /\ Head(s) \in Whitespace THEN LStrip(Tail(s)) ELSE s
RECURSIVE RStrip(_)
RStrip(s) ==
    IF s # <<>> /\ s[Len(s)] \in Whitespace
    THEN RStrip(SubSeq(s, 1, Len(s) - 1)) ELSE s
Strip(s) == RStrip(LStrip(s))

\* Timer(self.debounce_delay, self._fire_trigger), started: its thread waits
\* on the `finished` event for debounce_delay.
NewTimer ==
    [tpc |-> "t_wait", finished |-> FALSE, deadline |-> now + debounce_delay,
     ctx |-> <<>>, len |-> 0]

\* _cancel_timer: Timer.cancel() sets the timer's `finished` event.
CancelTimer(ts, k) == IF k = 0 THEN ts ELSE [ts EXCEPT ![k].finished = TRUE]

\* _reset_debounce for the new buffer content: the timers afterwards.
TimersAfterReset(buf) ==
    IF ResetDebounce(buf)
    THEN Append(CancelTimer(timers, debounce_timer), NewTimer)
    ELSE CancelTimer(timers, debounce_timer)

\* _reset_debounce for the new buffer content: self.debounce_timer afterwards.
TimerAfterReset(buf) == IF ResetDebounce(buf) THEN Len(timers) + 1 ELSE 0

\* The time the buffer call being executed was made: a caller is not always
\* given self.lock, or the processor, at once.
ArrivedAt == IF callAt >= 0 THEN callAt ELSE now

\* TextBuffer.append(text), under self.lock
AppendBody(text) ==
    /\ bufOps < MaxBufOps
    /\ buffer' = Roll(buffer \o text)
    /\ session_chars' = session_chars + Len(text)
    /\ timers' = TimersAfterReset(buffer')
    /\ debounce_timer' = TimerAfterReset(buffer')
    /\ logical' = logical \o text
    /\ bufOps' = bufOps + 1
    /\ lastOp' = "append"
    /\ lastAt' = ArrivedAt
    /\ burst' = (burst /\ (bufOps = 0 \/ ArrivedAt - lastAt < debounce_delay))
    /\ callAt' = -1
    /\ UNCHANGED <<now, calls, clearMark>>

append(text) == AppendBody(text) /\ UNCHANGED <<schedVars, newVars, extVars, kbVars>>

\* TextBuffer.handle_backspace(), under self.lock
BackspaceBody ==
    /\ bufOps < MaxBufOps
    /\ IF buffer # <<>>
       THEN /\ buffer' = ButLast(buffer)
            /\ timers' = TimersAfterReset(buffer')
            /\ debounce_timer' = TimerAfterReset(buffer')
       ELSE UNCHANGED <<buffer, timers, debounce_timer>>
    /\ logical' = ButLast(logical)
    /\ bufOps' = bufOps + 1
    /\ lastOp' = "backspace"
    /\ lastAt' = ArrivedAt
    /\ burst' = FALSE
    /\ callAt' = -1
    /\ UNCHANGED <<session_chars, now, calls, clearMark>>

handle_backspace == BackspaceBody /\ UNCHANGED <<schedVars, newVars, extVars, kbVars>>

\* TextBuffer.clear(), under self.lock
ClearBody ==
    /\ bufOps < MaxBufOps
    /\ buffer' = <<>>
    /\ timers' = CancelTimer(timers, debounce_timer)
    /\ debounce_timer' = 0
    /\ logical' = <<>>
    /\ bufOps' = bufOps + 1
    /\ lastOp' = "clear"
    /\ lastAt' = ArrivedAt
    /\ burst' = FALSE
    /\ clearMark' = Len(timers)
    /\ callAt' = -1
    /\ UNCHANGED <<session_chars, now, calls>>

clear == ClearBody /\ UNCHANGED <<schedVars, newVars, extVars, kbVars>>

BufNext ==
    \/ \E text \in Texts : append(text)
    \/ handle_backspace

BufSpec == Init /\ [][BufNext]_vars

\* ------------------------------------------------------------ debounce
\* The clock advances.
Tick ==
    /\ now < MaxTime
    /\ now' = now + 1
    /\ UNCHANGED <<bufVars, timers, callAt, calls, lastOp, lastAt, burst, clearMark,
                   schedVars, newVars, extVars, kbVars>>

\* Timer.run of timer k: finished.wait(interval) returns, because the delay
\* has elapsed or because cancel() set the event; the function is called
\* only if the event is not set at that moment.
TimerExpire(k) ==
    /\ timers[k].tpc = "t_wait"
    /\ timers[k].finished \/ now >= timers[k].deadline
    /\ timers' = [timers EXCEPT ![k].tpc =
                     IF timers[k].finished THEN "t_done" ELSE "t_fire"]
    /\ UNCHANGED <<bufVars, now, callAt, calls, lastOp, lastAt, burst, clearMark,
                   schedVars, newVars, extVars, kbVars>>

\* _fire_trigger on the thread of timer k: context = self.get_context(),
\* taken under self.lock; the callback follows only if it is not empty.
FireTrigger(k) ==
    /\ timers[k].tpc = "t_fire"
    /\ timers' = [timers EXCEPT
                     ![k].ctx = IF Strip(buffer) # <<>> THEN Strip(buffer) ELSE @,
                     ![k].len = IF Strip(buffer) # <<>> THEN Len(buffer) ELSE @,
                     ![k].tpc = IF Strip(buffer) # <<>> THEN "t_call" ELSE "t_done",
                     ![k].finished = IF Strip(buffer) # <<>> THEN @ ELSE TRUE]
    /\ UNCHANGED <<bufVars, now, callAt, calls, lastOp, lastAt, burst, clearMark,
                   schedVars, newVars, extVars, kbVars>>

\* _fire_trigger on the thread of timer k: self.on_context_ready(context).
ContextReady(k) ==
    /\ timers[k].tpc = "t_call"
    /\ calls' = Append(calls, [timer |-> k, ctx |-> timers[k].ctx,
                               len |-> timers[k].len,
                               current |-> (debounce_timer = k),
                               preClear |-> (k <= clearMark)])
    /\ timers' = [timers EXCEPT ![k].tpc = "t_done", ![k].finished = TRUE,
                                ![k].ctx = <<>>, ![k].len = 0]
    /\ UNCHANGED <<bufVars, now, callAt, lastOp, lastAt, burst, clearMark,
                   schedVars, newVars, extVars, kbVars>>

\* A thread calls append, handle_backspace or clear: the call is made now
\* and its critical section, one of the three actions above, runs later.
BufferCall ==
    /\ callAt = -1
    /\ bufOps < MaxCalls
    /\ callAt' = now
    /\ UNCHANGED <<bufVars, timers, now, calls, lastOp, lastAt, burst,
                   clearMark, schedVars, newVars, extVars, kbVars>>

TimerNext ==
    \E k \in 1..Len(timers) :
        \/ TimerExpire(k)
        \/ FireTrigger(k)
        \/ ContextReady(k)

DebounceNext ==
    \/ BufferCall
    \/ callAt >= 0 /\ \E text \in Texts : append(text)
    \/ callAt >= 0 /\ handle_backspace
    \/ callAt >= 0 /\ clear
    \/ Tick
    \/ TimerNext

DebounceSpec == Init /\ [][DebounceNext]_vars

\* ------------------------------------------------------------ KeyboardMonitor
\* keyboard.trigger_keys, by default ['enter', 'tab'].
trigger_keys == {"enter", "tab"}

\* self.hotkey_combinations as _parse_hotkeys builds it, in dictionary
\* order, from keyboard.hotkeys = {quick_complete: 'ctrl+shift+c',
\* toggle_assistant: 'ctrl+c', dictate: 'alt+space'}.
hotkey_combinations ==
    << [action |-> "quick_complete",
        modifiers |-> << {"ctrl_l", "ctrl_r"}, {"shift", "shift_r"} >>,
        key |-> "c"],
       [action |-> "toggle_assistant",
        modifiers |-> << {"ctrl_l", "ctrl_r"} >>,
        key |-> "c"],
       [action |-> "dictate",
        modifiers |-> << {"alt_l", "alt_r"} >>,
        key |-> "space"] >>

\* Keys pressed and released in a run of the key logic.
Keys ==
    {SpecialKey("ctrl_r"), SpecialKey("shift"), SpecialKey("alt_l"),
     CharKey("c"), CharKey("C"), CharKey("a"),
     SpecialKey("space"), SpecialKey("enter"), SpecialKey("backspace"),
     SpecialKey("left")}

\* Events the OS hook delivers in a run of the monitor threads.
HookEvents ==
    {[type |-> "press", key |-> SpecialKey("shift")],
     [type |-> "release", key |-> SpecialKey("shift")],
     [type |-> "press", key |-> CharKey("a")]}

\* str.lower() on the characters the model uses.
Lower(ch) ==
    CASE ch = "C" -> "c" [] ch = "A" -> "a" [] ch = "S" -> "s"
      [] ch = "E" -> "e" [] ch = "D" -> "d" [] ch = "M" -> "m"
      [] OTHER -> ch

\* _is_modifier
IsModifier(key) ==
    /\ key.kind = "Key"
    /\ key.name \in {"ctrl_l", "ctrl_r", "shift", "shift_r", "alt_l", "alt_r", "cmd"}

\* _get_key_name
GetKeyName(key) == IF key.kind = "Key" THEN key.name ELSE "char"

\* _check_hotkeys, step 1: the pressed key is the combination's trigger key.
KeyMatch(key, trigger_key) ==
    IF key.kind = "KeyCode"
    THEN key.char # "" /\ trigger_key # "" /\ Lower(key.char) = Lower(trigger_key)
    ELSE key.name = trigger_key

\* A combination that asks for one of its modifier groups only.
ComboMatchesAnyGroup(reqs, key, mods) ==
    /\ KeyMatch(key, reqs.key)
    /\ \E g \in 1..Len(reqs.modifiers) : reqs.modifiers[g] \cap mods # {}

\* _check_hotkeys, one iteration: the trigger key matches and every required
\* group has a member among the held modifiers.
ComboMatches(reqs, key, mods) ==
    /\ KeyMatch(key, reqs.key)
    /\ \A g \in 1..Len(reqs.modifiers) : reqs.modifiers[g] \cap mods # {}

\* The combinations matching a press, by position in hotkey_combinations.
Matching(key, mods) ==
    {i \in 1..Len(hotkey_combinations) :
        ComboMatches(hotkey_combinations[i], key, mods)}

\* The last matching combination instead of the first.
CheckHotkeysLast(key, mods) ==
    IF Matching(key, mods) = {} THEN <<>>
    ELSE LET i == CHOOSE m \in Matching(key, mods) :
                     \A n \in Matching(key, mods) : m >= n
         IN <<hotkey_combinations[i].action>>

\* _check_hotkeys: the hotkey_triggered emissions, the action of the first
\* matching combination or nothing (the method then returns False).
CheckHotkeys(key, mods) ==
    IF Matching(key, mods) = {} THEN <<>>
    ELSE LET i == CHOOSE m \in Matching(key, mods) :
                     \A n \in Matching(key, mods) : m <= n
         IN <<hotkey_combinations[i].action>>

\* _key_to_text
KeyToText(key) ==
    IF key.kind = "KeyCode" /\ key.char # "" THEN <<key.char>>
    ELSE IF key = SpecialKey("space") THEN <<" ">>
    ELSE IF key = SpecialKey("enter") THEN <<"\n">>
    ELSE IF key = SpecialKey("tab") THEN <<"\t">>
    ELSE <<>>

\* Every text key taken for a trigger key.
ShouldTriggerAlways(key) == KeyToText(key) # <<>>

\* _should_trigger_completion
ShouldTriggerCompletion(key) ==
    \/ key = SpecialKey("space") /\ "space" \in trigger_keys
    \/ key = SpecialKey("enter") /\ "enter" \in trigger_keys
    \/ key = SpecialKey("tab") /\ "tab" \in trigger_keys

\* Navigation keys: they clear the buffer.
IsNavigation(key) ==
    /\ key.kind = "Key"
    /\ key.name \in {"up", "down", "left", "right", "home", "end"}

\* Text capture that goes on while paused.
CaptureSkippedNever == FALSE

\* _handle_press_logic: `if self.paused: return`.
CaptureSkipped == paused

\* _handle_press_logic(key)
PressLogic(key) ==
    LET mods == IF IsModifier(key)
                THEN current_modifiers \cup {GetKeyName(key)}
                ELSE current_modifiers
        hot == CheckHotkeys(key, mods)
    IN /\ current_modifiers' = mods
       /\ hotkey_triggered' = hot
       /\ lastEv' = KeyEvent(0, "press", key)
       /\ IF hot # <<>> \/ CaptureSkipped
          THEN /\ text_captured' = <<>>
               /\ UNCHANGED <<bufVars, tmVars>>
          ELSE IF IsNavigation(key)
          THEN /\ ClearBody
               /\ text_captured' = <<>>
          ELSE IF KeyToText(key) # <<>>
          THEN /\ AppendBody(KeyToText(key))
               /\ text_captured' =
                     IF ShouldTriggerCompletion(key) /\ Strip(buffer') # <<>>
                     THEN <<Strip(buffer')>> ELSE <<>>
          ELSE IF key = SpecialKey("backspace")
          THEN /\ BackspaceBody
               /\ text_captured' = <<>>
          ELSE /\ text_captured' = <<>>
               /\ UNCHANGED <<bufVars, tmVars>>

\* _handle_release_logic(key)
ReleaseLogic(key) ==
    /\ current_modifiers' = current_modifiers \ {GetKeyName(key)}
    /\ lastEv' = KeyEvent(0, "release", key)
    /\ hotkey_triggered' = <<>>
    /\ text_captured' = <<>>
    /\ UNCHANGED <<bufVars, tmVars>>

\* pause() / resume()
pause ==
    /\ ~paused
    /\ paused' = TRUE
    /\ UNCHANGED <<kb_running, stop_event, listener, input_queue,
                   current_modifiers, procs, ppc, evCount, starts, stops,
                   handled, lastEv, hotkey_triggered, text_captured,
                   schedVars, newVars, extVars, bufVars, tmVars>>

resume ==
    /\ paused
    /\ paused' = FALSE
    /\ UNCHANGED <<kb_running, stop_event, listener, input_queue,
                   current_modifiers, procs, ppc, evCount, starts, stops,
                   handled, lastEv, hotkey_triggered, text_captured,
                   schedVars, newVars, extVars, bufVars, tmVars>>

\* ------------------------------------------------------------ key logic spec
\* The consumer alone, handling one event after the other.
KeyPress(key) ==
    /\ evCount < MaxKeys
    /\ PressLogic(key)
    /\ evCount' = evCount + 1
    /\ handled' = Append(handled, evCount + 1)
    /\ UNCHANGED <<kb_running, paused, stop_event, listener, input_queue,
                   procs, ppc, starts, stops, schedVars, newVars, extVars>>

KeyRelease(key) ==
    /\ evCount < MaxKeys
    /\ ReleaseLogic(key)
    /\ evCount' = evCount + 1
    /\ handled' = Append(handled, evCount + 1)
    /\ UNCHANGED <<kb_running, paused, stop_event, listener, input_queue,
                   procs, ppc, starts, stops, schedVars, newVars, extVars>>

KeyNext ==
    \/ \E key \in Keys : KeyPress(key)
    \/ \E key \in Keys : KeyRelease(key)
    \/ pause
    \/ resume

KeySpec == Init /\ [][KeyNext]_vars

\* ------------------------------------------------------------ monitor threads
\* start(): nothing if already running; otherwise set running, clear the
\* stop event, start a new _process_queue thread and a new Listener.
StartBody ==
    /\ starts < MaxStarts
    /\ starts' = starts + 1
    /\ IF kb_running
       THEN UNCHANGED <<kb_running, stop_event, procs, listener>>
       ELSE /\ kb_running' = TRUE
            /\ stop_event' = FALSE
            /\ procs' = Append(procs, [pc |-> "c_loop", ev |-> NoEv])
            /\ listener' = TRUE
    /\ UNCHANGED <<paused, input_queue, current_modifiers, ppc, evCount, stops,
                   handled, lastEv, hotkey_triggered, text_captured>>

start == StartBody /\ UNCHANGED <<schedVars, newVars, extVars, bufVars, tmVars>>

\* A stop() that flips running instead of clearing it.
StopFlipsRunning ==
    /\ stops < MaxStarts
    /\ stops' = stops + 1
    /\ kb_running' = ~kb_running
    /\ stop_event' = TRUE
    /\ listener' = FALSE
    /\ input_queue' = <<>>
    /\ UNCHANGED <<paused, current_modifiers, procs, ppc, evCount, starts,
                   handled, lastEv, hotkey_triggered, text_captured>>

\* stop(): clear running, set the stop event, stop the Listener, clear the
\* queue.
StopBody ==
    /\ stops < MaxStarts
    /\ stops' = stops + 1
    /\ kb_running' = FALSE
    /\ stop_event' = TRUE
    /\ listener' = FALSE
    /\ input_queue' = <<>>
    /\ UNCHANGED <<paused, current_modifiers, procs, ppc, evCount, starts,
                   handled, lastEv, hotkey_triggered, text_captured>>

stop == StopBody /\ UNCHANGED <<schedVars, newVars, extVars, bufVars, tmVars>>

\* The modifier keys physically held after event e: a press counts when the
\* OS hook delivers it to a Listener, a release always.
HeldAfter(e, delivered) ==
    IF ~IsModifier(e.key) THEN held
    ELSE IF e.type = "release" THEN held \ {GetKeyName(e.key)}
    ELSE IF delivered THEN held \cup {GetKeyName(e.key)}
    ELSE held

\* _on_press_producer / _on_release_producer, called by the Listener:
\* `if self.running`.
ProducerCall(e) ==
    /\ listener
    /\ ppc.pc = "p_idle"
    /\ evCount < MaxHookEvents
    /\ evCount' = evCount + 1
    /\ ppc' = IF kb_running
              THEN [pc |-> "p_put", ev |-> KeyEvent(evCount + 1, e.type, e.key)]
              ELSE ppc
    /\ held' = HeldAfter(e, TRUE)
    /\ UNCHANGED <<kb_running, paused, stop_event, listener, input_queue,
                   current_modifiers, procs, starts, stops, handled, lastEv,
                   hotkey_triggered, text_captured, schedVars, appVars, typed,
                   extVars, bufVars, tmVars>>

\* _on_press_producer / _on_release_producer: self.input_queue.put(...)
ProducerPut ==
    /\ ppc.pc = "p_put"
    /\ input_queue' = Append(input_queue, ppc.ev)
    /\ ppc' = [pc |-> "p_idle", ev |-> NoEv]
    /\ UNCHANGED <<kb_running, paused, stop_event, listener,
                   current_modifiers, procs, evCount, starts, stops, handled,
                   lastEv, hotkey_triggered, text_captured, schedVars, newVars, extVars, bufVars,
                   tmVars>>

\* _process_queue on thread p: `while not self.stop_event.is_set()`
ConsumerLoop(p) ==
    /\ procs[p].pc = "c_loop"
    /\ procs' = [procs EXCEPT ![p].pc = IF stop_event THEN "c_exit" ELSE "c_get"]
    /\ UNCHANGED <<kb_running, paused, stop_event, listener, input_queue,
                   current_modifiers, ppc, evCount, starts, stops, handled,
                   lastEv, hotkey_triggered, text_captured, schedVars, newVars, extVars, bufVars,
                   tmVars>>

\* _process_queue on thread p: self.input_queue.get(timeout=0.5) returns the
\* oldest event, or raises queue.Empty after the timeout.
ConsumerGet(p) ==
    /\ procs[p].pc = "c_get"
    /\ IF input_queue # <<>>
       THEN /\ procs' = [procs EXCEPT ![p] = [pc |-> "c_handle",
                                              ev |-> Head(input_queue)]]
            /\ input_queue' = Tail(input_queue)
       ELSE /\ procs' = [procs EXCEPT ![p].pc = "c_loop"]
            /\ UNCHANGED input_queue
    /\ UNCHANGED <<kb_running, paused, stop_event, listener,
                   current_modifiers, ppc, evCount, starts, stops, handled,
                   lastEv, hotkey_triggered, text_captured, schedVars, newVars, extVars, bufVars,
                   tmVars>>

\* _process_queue on thread p: the press or release logic for its event.
ConsumerHandle(p) ==
    /\ procs[p].pc = "c_handle"
    /\ IF procs[p].ev.type = "press"
       THEN PressLogic(procs[p].ev.key)
       ELSE ReleaseLogic(procs[p].ev.key)
    /\ handled' = Append(handled, procs[p].ev.id)
    /\ procs' = [procs EXCEPT ![p] = [pc |-> "c_loop", ev |-> NoEv]]
    /\ UNCHANGED <<kb_running, paused, stop_event, listener, input_queue, ppc,
                   evCount, starts, stops, schedVars, newVars, extVars>>

ConsumerNext ==
    \E p \in 1..Len(procs) :
        \/ ConsumerLoop(p)
        \/ ConsumerGet(p)
        \/ ConsumerHandle(p)

MonitorNext ==
    \/ start
    \/ stop
    \/ \E e \in HookEvents : ProducerCall(e)
    \/ ProducerPut
    \/ ConsumerNext

MonitorSpec == Init /\ [][MonitorNext]_vars

\* ============================================================ properties
\* Where the requests put in the queue and not yet started can be.
Held == Ids(cTemp) \cup UNION {Ids(aTemp[t]) : t \in Adders}
\* Requests whose add_request has not yet reached its put(request).
NotYetPut == {aReq[t].request_id : t \in {u \in Adders :
                  apc[u] \in {"a_drain", "a_refill", "a_put"}}}
\* Requests put in the queue by add_request so far.
PutIds == ((1..nextId) \ rejected) \ NotYetPut
\* Requests put in the queue whose add_request has returned True.
AcceptedIds == PutIds \ {aReq[t].request_id : t \in {u \in Adders :
                            apc[u] = "a_wake"}}

\* C1: at most one generation is active: whenever a started event is emitted,
\* every request started earlier has had its completed or failed event, so
\* the engine is never called for a second request while an earlier one is
\* in process.
C1_AtMostOneActive ==
    /\ Cardinality(open) <= 1
    /\ \A i \in 1..Len(emitted) :
          emitted[i].type \in {"started", "generate"}
              => open \subseteq {emitted[i].id}

\* C1 witness: a second request has just been started, after the first one's
\* terminal event.
C1_Witness ==
    /\ Cardinality(started) >= 2
    /\ Len(emitted) = 1
    /\ emitted[1].type = "started"
    /\ open = {emitted[1].id}

\* C2: whenever the worker starts a request, no request still queued has a
\* smaller priority number, and none of the same priority is older.
C2_StartOrder ==
    [][ (wpc = "w_get" /\ wpc' = "w_proc")
          => \A i \in 1..Len(request_queue) :
                KeyLe(HeapTop(request_queue), request_queue[i]) ]_vars

\* C3: the entry add_request drops from a full queue is exactly one, has the
\* largest priority number of the drained entries and is the oldest of those
\* with that priority.
C3_EvictsOldestOfLowest ==
    [][ \A t \in Adders :
          (apc[t] = "a_drain" /\ apc'[t] # "a_drain")
            => /\ Cardinality(evicted' \ evicted) = 1
               /\ \A i, j \in 1..Len(aTemp[t]) :
                     aTemp[t][i].request_id \in evicted' \ evicted
                       => \/ aTemp[t][j].priority < aTemp[t][i].priority
                          \/ /\ aTemp[t][j].priority = aTemp[t][i].priority
                             /\ aTemp[t][j].timestamp >= aTemp[t][i].timestamp
      ]_vars

\* C4: add_request never returns False.
C4_AddNeverRejects == rejected = {}

\* C5: every started request gets exactly one terminal event before the
\* worker takes the next request: failed (with a description) when the
\* engine raised or returned empty text, completed with the text otherwise.
C5_ExactlyOneTerminal ==
    /\ \A i \in 1..MaxRequests :
          termCount[i] = IF i \in started \ open THEN 1 ELSE 0
    /\ open = IF wpc = "w_proc" THEN {current_request} ELSE {}
    /\ \A j \in 1..Len(emitted) :
          emitted[j].type = "generate"
            => /\ Len(emitted) = j + 1
               /\ emitted[j + 1].id = emitted[j].id
               /\ emitted[j + 1].type =
                     IF emitted[j].info = "text" THEN "completed" ELSE "failed"
               /\ emitted[j + 1].info # ""
               /\ emitted[j + 1].type = "completed" => emitted[j + 1].info = "text"

\* C5 witness: the engine raised for a request, which got its failed event,
\* after an earlier request had completed.
C5_Witness ==
    /\ processed_requests >= 1
    /\ Len(emitted) = 2
    /\ emitted[1].type = "generate"
    /\ emitted[1].info = "raise"
    /\ emitted[2].type = "failed"

\* C6: a request cancel_request removed is nowhere in the scheduler and has
\* no event at all; every other request put in the queue is in exactly one
\* place (queued, held in a temp_items list, started, evicted or cancelled),
\* and all held ones are back when cancel_request returns; cancel_request
\* for the request in process does not find it.
C6_CancelOnlyQueued ==
    /\ \A id \in cancelled :
          /\ id \notin Ids(request_queue) \cup Held \cup started
          /\ termCount[id] = 0
    /\ PutIds = Ids(request_queue) \cup Held \cup started \cup evicted \cup cancelled
    /\ Cardinality(PutIds) =
          Len(request_queue) + Len(cTemp) + Len(aTemp["timer"]) + Len(aTemp["ui"])
          + Cardinality(started) + Cardinality(evicted) + Cardinality(cancelled)
    /\ cpc = "c_idle" => cTemp = <<>>
    /\ cBusy => ~cFound /\ cId \in started

\* C6 witness: cancel_request has returned True while another request is
\* still queued and a third is in process.
C6_Witness ==
    /\ cancelled # {}
    /\ cpc = "c_idle"
    /\ request_queue # <<>>
    /\ wpc = "w_proc"

\* C7: cancel_request for an id that is not queued has no side effect other
\* threads can observe: it never holds queued entries out of the queue.
C7_MissNoSideEffect == (cpc \in {"c_drain", "c_refill"} /\ cMiss) => cTemp = <<>>

\* C8: stop() terminates: once called and until it returns, some step of the
\* worker or of a call in progress is possible (no new call is needed).
C8_StopTerminates ==
    spc \in {"s_wake", "s_join"} => ENABLED (WorkerNext \/ CallSteps)

\* C9: while the scheduler is not stopped and its worker runs, an accepted
\* request that is still queued is never stuck: some step of the worker or
\* of a call in progress is possible (no new call is needed).
C9_AcceptedGetsStarted ==
    ( /\ spc = "s_idle"
      /\ wpc \notin {"w_init", "w_exit"}
      /\ AcceptedIds \cap (Ids(request_queue) \cup Held) # {} )
    => ENABLED (WorkerNext \/ CallSteps)

\* C10: the buffer never holds more than max_size characters and is a suffix
\* of the logical text.
C10_RollingWindow ==
    /\ Len(buffer) <= max_size
    /\ Len(buffer) <= Len(logical)
    /\ buffer = SubSeq(logical, Len(logical) - Len(buffer) + 1, Len(logical))

\* C10 witness: the window has rolled (the logical text is longer than the
\* full buffer) and a backspace has then removed a character.
C10_Witness ==
    /\ Len(logical) > max_size
    /\ Len(buffer) = max_size - 1
    /\ session_chars > Len(logical)

\* No timer thread is between its start and its end.
Quiet == \A k \in 1..Len(timers) : timers[k].tpc = "t_done"

\* C11: after a burst of appends, each made less than debounce_delay after
\* the one before, the callback has never been invoked twice nor with
\* anything but the buffer snapshot, and once the buffer holds at least
\* min_context_length characters and every timer thread has ended it has
\* been invoked exactly once.  (Read in the claim's favour for a buffer of
\* whitespace alone, whose snapshot is empty and yields no callback.)
C11_BurstFiresOnce ==
    (burst /\ bufOps >= 1)
      => /\ Len(calls) <= 1
         /\ \A i \in 1..Len(calls) : calls[i].ctx = Strip(buffer)
         /\ (Quiet /\ Len(buffer) >= min_context_length /\ Strip(buffer) # <<>>)
               => Len(calls) = 1

\* C12: a callback is only ever invoked by the timer the latest append or
\* backspace scheduled, never by a timer a later call has superseded.
C12_SupersededNeverFires ==
    \A i \in 1..Len(calls) : calls[i].current

\* C13: the callback is only invoked with a snapshot of a buffer that held
\* at least min_context_length characters when the snapshot was taken.
C13_FiresOnlyAboveMinimum ==
    \A i \in 1..Len(calls) : calls[i].len >= min_context_length

\* C14: clear() empties the buffer, and no callback is invoked afterwards on
\* behalf of a timer created before that clear().
C14_ClearSilencesTimers ==
    /\ lastOp = "clear" => buffer = <<>>
    /\ \A i \in 1..Len(calls) : ~calls[i].preClear

\* C15 as stated: handle_backspace removes the last character of a non-empty
\* buffer, leaves session_chars alone, cancels the pending timer and
\* schedules a new one from the time of the backspace; on an empty buffer it
\* changes nothing.
C15_BackspaceRestarts ==
    [][ (bufOps' = bufOps + 1 /\ lastOp' = "backspace")
          => /\ session_chars' = session_chars
             /\ IF buffer = <<>>
                THEN UNCHANGED <<buffer, timers, debounce_timer>>
                ELSE /\ buffer' = SubSeq(buffer, 1, Len(buffer) - 1)
                     /\ debounce_timer # 0 => timers'[debounce_timer].finished
                     /\ debounce_timer' = Len(timers) + 1
                     /\ Len(timers') = Len(timers) + 1
                     /\ timers'[debounce_timer'].tpc = "t_wait"
                     /\ ~timers'[debounce_timer'].finished
                     /\ timers'[debounce_timer'].deadline = now + debounce_delay
      ]_vars

\* C15 amended: the same, except that the new timer is scheduled only when
\* the buffer still holds at least min_context_length characters after the
\* removal; below that the pending timer is cancelled and none is scheduled.
C15_BackspaceRestartsIfLongEnough ==
    [][ (bufOps' = bufOps + 1 /\ lastOp' = "backspace")
          => /\ session_chars' = session_chars
             /\ IF buffer = <<>>
                THEN UNCHANGED <<buffer, timers, debounce_timer>>
                ELSE /\ buffer' = SubSeq(buffer, 1, Len(buffer) - 1)
                     /\ debounce_timer # 0 => timers'[debounce_timer].finished
                     /\ IF Len(buffer') >= min_context_length
                        THEN /\ debounce_timer' = Len(timers) + 1
                             /\ Len(timers') = Len(timers) + 1
                             /\ timers'[debounce_timer'].tpc = "t_wait"
                             /\ ~timers'[debounce_timer'].finished
                             /\ timers'[debounce_timer'].deadline
                                   = now + debounce_delay
                        ELSE /\ debounce_timer' = 0
                             /\ Len(timers') = Len(timers)
      ]_vars

\* C15 witness: a backspace has cancelled a pending timer and scheduled a
\* new one.
C15_Witness ==
    /\ lastOp = "backspace"
    /\ debounce_timer >= 2
    /\ timers[debounce_timer - 1].finished
    /\ ~timers[debounce_timer].finished
    /\ Len(buffer) >= min_context_length

\* The consumer handles a press event in this step.
PressStep == Len(handled') = Len(handled) + 1 /\ lastEv'.type = "press"

\* The pressed key equals a combination's trigger key.
TriggerEquals(key, trigger) ==
    \/ key.kind = "KeyCode" /\ Lower(key.char) = trigger
    \/ key.kind = "Key" /\ key.name = trigger

\* Combination i matches a press of `key` with ModifierSet M: the key is its
\* trigger key and every required group has a member in M.
Matches(i, key, M) ==
    /\ TriggerEquals(key, hotkey_combinations[i].key)
    /\ \A g \in 1..Len(hotkey_combinations[i].modifiers) :
          \E m \in hotkey_combinations[i].modifiers[g] : m \in M

\* The hotkey emission of a press of `key` with ModifierSet M: the action of
\* the first matching combination, if any.
FirstMatch(key, M) ==
    IF \E i \in 1..Len(hotkey_combinations) : Matches(i, key, M)
    THEN <<hotkey_combinations[
              CHOOSE i \in 1..Len(hotkey_combinations) :
                  /\ Matches(i, key, M)
                  /\ \A j \in 1..(i - 1) : ~Matches(j, key, M)].action>>
    ELSE <<>>

\* C16: a press emits a hotkey action exactly when some combination matches
\* it (trigger key pressed, a member of every required group in
\* ModifierSet), and the action emitted is that of a matching combination;
\* with ctrl_r and shift held a press of c matches ctrl+shift+c, with alt
\* and shift held it matches nothing.
C16_HotkeyMatch ==
    [][ PressStep
          => /\ (hotkey_triggered' # <<>>)
                   <=> \E i \in 1..Len(hotkey_combinations) :
                           Matches(i, lastEv'.key, current_modifiers')
             /\ \A n \in 1..Len(hotkey_triggered') :
                   \E i \in 1..Len(hotkey_combinations) :
                       /\ hotkey_combinations[i].action = hotkey_triggered'[n]
                       /\ Matches(i, lastEv'.key, current_modifiers')
             /\ (lastEv'.key = CharKey("c") /\ current_modifiers' = {"ctrl_r", "shift"})
                   => "quick_complete" \in Range(hotkey_triggered')
             /\ (lastEv'.key = CharKey("c") /\ current_modifiers' = {"alt_l", "shift"})
                   => hotkey_triggered' = <<>>
      ]_vars

\* C16 witness: c has been pressed with ctrl_r and shift held and the
\* hotkey has been emitted.
C16_Witness ==
    /\ lastEv.type = "press"
    /\ lastEv.key = CharKey("c")
    /\ current_modifiers = {"ctrl_r", "shift"}
    /\ hotkey_triggered = <<"quick_complete">>

\* C17: a press emits at most one hotkey action, that of the first matching
\* combination, and a press that emitted one leaves the buffer and its
\* debounce alone and emits no manual trigger.
C17_HotkeyShortCircuits ==
    [][ PressStep
          => /\ Len(hotkey_triggered') <= 1
             /\ hotkey_triggered' = FirstMatch(lastEv'.key, current_modifiers')
             /\ hotkey_triggered' # <<>>
                   => /\ UNCHANGED <<buffer, session_chars, debounce_timer, timers>>
                      /\ text_captured' = <<>>
      ]_vars

\* C17 witness: with text in the buffer, a press of the text key c has
\* matched two combinations and emitted the first one's action.
C17_Witness ==
    /\ lastEv.type = "press"
    /\ lastEv.key = CharKey("c")
    /\ buffer = <<"a">>
    /\ Cardinality({i \in 1..Len(hotkey_combinations) :
                       Matches(i, lastEv.key, current_modifiers)}) = 2
    /\ hotkey_triggered = <<"quick_complete">>

\* C18: while paused a press leaves the buffer and its debounce alone and
\* emits no manual trigger; paused or not, a press adds a modifier key to
\* ModifierSet and emits the hotkey action that depends on the key and
\* ModifierSet alone.
C18_PausedSkipsCapture ==
    [][ PressStep
          => /\ paused
                   => /\ UNCHANGED <<buffer, session_chars, debounce_timer, timers>>
                      /\ text_captured' = <<>>
             /\ current_modifiers' =
                   IF lastEv'.key.name \in {"ctrl_l", "ctrl_r", "shift", "shift_r",
                                            "alt_l", "alt_r", "cmd"}
                   THEN current_modifiers \cup {lastEv'.key.name}
                   ELSE current_modifiers
             /\ hotkey_triggered' = FirstMatch(lastEv'.key, current_modifiers')
      ]_vars

\* C18 witness: a was pressed while paused and nothing was ever appended.
C18_Witness ==
    /\ paused
    /\ lastEv.type = "press"
    /\ lastEv.key = CharKey("a")
    /\ session_chars = 0
    /\ buffer = <<>>

\* The character a trigger key appends.
TriggerChar(key) ==
    IF key.name = "space" THEN " " ELSE IF key.name = "enter" THEN "\n" ELSE "\t"

\* C19: when not paused and no hotkey matches, a press of a configured
\* trigger key appends its character and then emits a manual trigger with
\* the trimmed buffer exactly when that is not empty; a press of any other
\* key emits no manual trigger.
C19_TriggerKeyEmits ==
    [][ (PressStep /\ ~paused /\ hotkey_triggered' = <<>>)
          => IF /\ lastEv'.key.kind = "Key"
                /\ lastEv'.key.name \in trigger_keys \cap {"space", "enter", "tab"}
             THEN /\ buffer' = Roll(Append(buffer, TriggerChar(lastEv'.key)))
                  /\ text_captured' =
                        IF Strip(buffer') # <<>> THEN <<Strip(buffer')>> ELSE <<>>
             ELSE text_captured' = <<>>
      ]_vars

\* C19 witness: enter was pressed after a and the manual trigger carries
\* the trimmed buffer.
C19_Witness ==
    /\ lastEv.type = "press"
    /\ lastEv.key = SpecialKey("enter")
    /\ buffer = <<"a", "\n">>
    /\ text_captured = << <<"a">> >>

\* C20: at no time are two _process_queue threads in get() or handling an
\* event, and events are handled in the order they were enqueued.
C20_SingleConsumerFifo ==
    /\ Cardinality({p \in 1..Len(procs) : procs[p].pc \in {"c_get", "c_handle"}}) <= 1
    /\ \A i, j \in 1..Len(handled) : i < j => handled[i] < handled[j]

\* C21: once stop() has been called, and until the monitor is started
\* again, the consumer passes no event to the press/release logic.
C21_NothingHandledAfterStop ==
    [][ Len(handled') > Len(handled) => kb_running ]_vars

\* The requests accepted and not yet started: in the queue, or held in the
\* temp_items list of a cancel_request or eviction in progress.
Waiting ==
    Range(request_queue) \cup Range(cTemp)
        \cup UNION {Range(aTemp[t]) : t \in Adders}

\* C28: manual requests carry priority 1 and automatic ones priority 2, and
\* the worker never starts an automatic request while a manual one is
\* waiting to be started.
C28_ManualStartsFirst ==
    [][ (wpc = "w_get" /\ wpc' = "w_proc")
          => \A r \in Waiting : HeapTop(request_queue).priority <= r.priority
      ]_vars

\* ------------------------------------------------------------ _parse_hotkeys
\* Number of pieces a configured hotkey string is made of.
MaxAtoms == 5

\* The words of the parser, character by character.
W_ctrl == <<"c", "t", "r", "l">>
W_shift == <<"s", "h", "i", "f", "t">>
W_alt == <<"a", "l", "t">>
W_cmd == <<"c", "m", "d">>
W_ctrl_l == <<"c", "t", "r", "l", "_", "l">>
W_ctrl_r == <<"c", "t", "r", "l", "_", "r">>
W_shift_l == <<"s", "h", "i", "f", "t", "_", "l">>
W_shift_r == <<"s", "h", "i", "f", "t", "_", "r">>
W_alt_l == <<"a", "l", "t", "_", "l">>
W_alt_r == <<"a", "l", "t", "_", "r">>

\* Pieces of the configured strings: 'ctrl', 'Shift', 'alt_l', 'cmd', 'c',
\* 'A', '+' and ' '.
HotkeyAtoms ==
    {W_ctrl, <<"S", "h", "i", "f", "t">>, W_alt_l, W_cmd, <<"c">>, <<"A">>,
     <<"+">>, <<" ">>}

RECURSIVE Concat(_)
Concat(ss) == IF ss = <<>> THEN <<>> ELSE Head(ss) \o Concat(Tail(ss))

\* The values keyboard.hotkeys may hold.
HotkeyStrings ==
    {Concat(as) : as \in UNION {[1..n -> HotkeyAtoms] : n \in 0..MaxAtoms}}

\* str.split(sep), reading s from position i with the part in progress.
RECURSIVE SplitFrom(_, _, _, _)
SplitFrom(s, sep, i, cur) ==
    IF i > Len(s) THEN <<cur>>
    ELSE IF s[i] = sep THEN <<cur>> \o SplitFrom(s, sep, i + 1, <<>>)
    ELSE SplitFrom(s, sep, i + 1, Append(cur, s[i]))

Split(s, sep) == SplitFrom(s, sep, 1, <<>>)

\* str.lower()
LowerStr(s) == [i \in 1..Len(s) |-> Lower(s[i])]

\* parts = [p.strip().lower() for p in hotkey_str.split('+')]
Parts(str) ==
    LET ps == Split(str, "+")
    IN [i \in 1..Len(ps) |-> LowerStr(Strip(ps[i]))]

\* The loop keeping the first token that is not a modifier.
ParseStepFirst(acc, part) ==
    IF part = W_ctrl
    THEN [acc EXCEPT !.modifiers = Append(@, {W_ctrl_l, W_ctrl_r})]
    ELSE IF part = W_shift
    THEN [acc EXCEPT !.modifiers = Append(@, {W_shift, W_shift_r})]
    ELSE IF part = W_alt
    THEN [acc EXCEPT !.modifiers = Append(@, {W_alt_l, W_alt_r})]
    ELSE IF part = W_cmd
    THEN [acc EXCEPT !.modifiers = Append(@, {W_cmd})]
    ELSE IF part \in {W_ctrl_l, W_ctrl_r, W_shift_l, W_shift_r, W_alt_l, W_alt_r}
    THEN [acc EXCEPT !.modifiers = Append(@, {part})]
    ELSE IF acc.key = <<>> THEN [acc EXCEPT !.key = part] ELSE acc

\* _parse_hotkeys, one turn of `for part in parts`; trigger_key = None is
\* the empty key (both count as no key in `if trigger_key`).
ParseStep(acc, part) ==
    IF part = W_ctrl
    THEN [acc EXCEPT !.modifiers = Append(@, {W_ctrl_l, W_ctrl_r})]
    ELSE IF part = W_shift
    THEN [acc EXCEPT !.modifiers = Append(@, {W_shift, W_shift_r})]
    ELSE IF part = W_alt
    THEN [acc EXCEPT !.modifiers = Append(@, {W_alt_l, W_alt_r})]
    ELSE IF part = W_cmd
    THEN [acc EXCEPT !.modifiers = Append(@, {W_cmd})]
    ELSE IF part \in {W_ctrl_l, W_ctrl_r, W_shift_l, W_shift_r, W_alt_l, W_alt_r}
    THEN [acc EXCEPT !.modifiers = Append(@, {part})]
    ELSE [acc EXCEPT !.key = part]

RECURSIVE ParseLoop(_, _)
ParseLoop(acc, parts) ==
    IF parts = <<>> THEN acc
    ELSE ParseLoop(ParseStep(acc, Head(parts)), Tail(parts))

\* _parse_hotkeys for one entry of self.hotkeys: the value stored in
\* parsed[action], or the entry left out.
ParseEntry(str) ==
    LET acc == ParseLoop([modifiers |-> <<>>, key |-> <<>>], Parts(str))
    IN IF acc.key # <<>>
       THEN [state |-> "parsed", modifiers |-> acc.modifiers, key |-> acc.key]
       ELSE [state |-> "omitted", modifiers |-> <<>>, key |-> <<>>]

\* self.hotkey_combinations = self._parse_hotkeys()
ParseHotkeys ==
    /\ hk_parsed.state = "unparsed"
    /\ hk_parsed' = ParseEntry(hk_str)
    /\ UNCHANGED <<hk_str, schedVars, newVars, bufVars, tmVars, kbVars, cxVars, orVars>>

ParseInit ==
    /\ CoreInit(DefaultQueueSize)
    /\ \E str \in HotkeyStrings : ParserInit(str)
    /\ SnifferInit(<<>>)
    /\ AssistantInit

ParseSpec == ParseInit /\ [][ParseHotkeys]_vars

\* The key names _is_modifier knows.
ModifierKeyNames ==
    {W_ctrl_l, W_ctrl_r, W_shift, W_shift_r, W_alt_l, W_alt_r, W_cmd}
\* The tokens naming a modifier on either side, and on one side.
GenericModifiers == {W_ctrl, W_shift, W_alt, W_cmd}
SideModifiers == {W_ctrl_l, W_ctrl_r, W_shift_l, W_shift_r, W_alt_l, W_alt_r}
IsPrefix(a, b) == Len(a) <= Len(b) /\ SubSeq(b, 1, Len(a)) = a
\* The pieces joined again with '+'.
RECURSIVE JoinPlus(_)
JoinPlus(ps) ==
    IF Len(ps) = 1 THEN ps[1] ELSE ps[1] \o <<"+">> \o JoinPlus(Tail(ps))
\* The tokens of the configured string: the pieces between the '+' signs,
\* without surrounding blanks and in lower case.
Tokens == Parts(hk_str)
ModifierAt == {i \in 1..Len(Tokens) : Tokens[i] \in GenericModifiers \cup SideModifiers}
KeyAt == (1..Len(Tokens)) \ ModifierAt
LastKeyAt == CHOOSE i \in KeyAt : \A j \in KeyAt : j <= i
\* The k-th modifier token.
NthModifier(k) ==
    CHOOSE i \in ModifierAt : Cardinality({j \in ModifierAt : j <= i}) = k

\* C22: the string is split on '+'; every modifier token becomes one modifier
\* group, in order (a generic name stands for the keys of that name on both
\* sides, a side-specific name for itself); the last token that is not a
\* modifier is the trigger key; a string with no trigger key is left out;
\* every string is parsed to one of the two outcomes.
C22_ParseHotkey ==
    hk_parsed.state # "unparsed" =>
        /\ LET ps == Split(hk_str, "+")
           IN /\ JoinPlus(ps) = hk_str
              /\ \A i \in 1..Len(ps) : \A j \in 1..Len(ps[i]) : ps[i][j] # "+"
        /\ hk_parsed.state \in {"parsed", "omitted"}
        /\ hk_parsed.state = "omitted"
              <=> (KeyAt = {} \/ Tokens[LastKeyAt] = <<>>)
        /\ hk_parsed.state = "parsed" =>
              /\ hk_parsed.key = Tokens[LastKeyAt]
              /\ Len(hk_parsed.modifiers) = Cardinality(ModifierAt)
              /\ \A k \in 1..Len(hk_parsed.modifiers) :
                    LET tok == Tokens[NthModifier(k)]
                    IN hk_parsed.modifiers[k] =
                          IF tok \in SideModifiers THEN {tok}
                          ELSE {n \in ModifierKeyNames : IsPrefix(tok, n)}

\* 'Shift+c+A': a modifier token written with a capital, then two other
\* tokens, the last of which is the key.
C22_Witness ==
    /\ hk_parsed.state = "parsed"
    /\ Len(hk_parsed.modifiers) = 1
    /\ Cardinality(KeyAt) = 2
    /\ hk_parsed.key = <<"a">>
    /\ \E i \in 1..Len(hk_str) : hk_str[i] = "S"

\* ------------------------------------------------------------ ContextSniffer
\* Number of turns of the polling loop one thread makes in a run.
MaxTicks == 2

\* context_awareness.enabled, by default True.
sniffer_enabled == TRUE

\* What gw.getActiveWindow() gives: no window, an exception, or a window
\* with its title ('Ed', 'me ', ' ').
Windows ==
    {[kind |-> "none", title |-> <<>>], [kind |-> "raise", title |-> <<>>],
     [kind |-> "window", title |-> <<"E", "d">>],
     [kind |-> "window", title |-> <<"m", "e", " ">>],
     [kind |-> "window", title |-> <<" ">>]}

\* Values of context_awareness.roles, in dictionary order: each role with
\* its 'apps' keywords.
RoleTables ==
    { << [role |-> "code", apps |-> << <<"e", "d">> >>],
         [role |-> "prose", apps |-> << <<"x", "x">>, <<"M">> >>] >>,
      << [role |-> "prose", apps |-> << <<"e">> >>],
         [role |-> "code", apps |-> << <<"E", "D">> >>] >>,
      << [role |-> "code", apps |-> <<>>],
         [role |-> "prose", apps |-> << <<"x">> >>] >> }

\* _get_active_window_title: window.title.strip(), '' for no window and for
\* an exception.
GetActiveWindowTitle(w) == IF w.kind = "window" THEN Strip(w.title) ELSE <<>>

\* Python's `a in b` on strings, trying the positions from i on.
RECURSIVE OccursFrom(_, _, _)
OccursFrom(a, b, i) ==
    IF i + Len(a) - 1 > Len(b) THEN FALSE
    ELSE IF SubSeq(b, i, i + Len(a) - 1) = a THEN TRUE
    ELSE OccursFrom(a, b, i + 1)

\* The keyword compared as it is written.
AppMatchesExact(app_name, window_title) == OccursFrom(app_name, window_title, 1)

\* app_name.lower() in window_title_lower
AppMatches(app_name, window_title) ==
    OccursFrom(LowerStr(app_name), LowerStr(window_title), 1)

\* for app_name in apps: ... match_found
RECURSIVE MatchFound(_, _)
MatchFound(apps, window_title) ==
    IF apps = <<>> THEN FALSE
    ELSE IF AppMatches(Head(apps), window_title) THEN TRUE
    ELSE MatchFound(Tail(apps), window_title)

\* _process_context_change: detected_role after the loop over the roles.
RECURSIVE DetectRole(_, _)
DetectRole(table, window_title) ==
    IF table = <<>> THEN default_role
    ELSE IF MatchFound(Head(table).apps, window_title) THEN Head(table).role
    ELSE DetectRole(Tail(table), window_title)

\* threading.Thread(target=self._monitor_loop), started.
NewMonitor ==
    [pc |-> "m_while", title |-> <<>>, role |-> "", ticks |-> 0,
     stopped |-> FALSE, prev |-> <<>>, was |-> default_role,
     emitted |-> FALSE]

\* The role of the latest context_changed emission.
LastEmittedRole ==
    IF context_changed = <<>> THEN default_role
    ELSE context_changed[Len(context_changed)].role

\* ContextSniffer.start()
CxStart ==
    /\ cx_spc = "s_idle"
    /\ cx_calls.starts < MaxStarts
    /\ cx_calls' = [cx_calls EXCEPT !.starts = @ + 1]
    /\ IF sniffer_enabled
       THEN /\ cx_running' = TRUE
            /\ cx_threads' = Append(cx_threads, NewMonitor)
            /\ cx_thread' = Len(cx_threads) + 1
       ELSE UNCHANGED <<cx_running, cx_threads, cx_thread>>
    /\ UNCHANGED <<roles_config, last_window_title, last_role, cx_spc,
                   context_changed, schedVars, newVars, bufVars, tmVars, kbVars,
                   psVars, orVars>>

\* ContextSniffer.stop(): self._running = False
CxStop ==
    /\ cx_spc = "s_idle"
    /\ cx_calls.stops < MaxStarts
    /\ cx_calls' = [cx_calls EXCEPT !.stops = @ + 1]
    /\ cx_running' = FALSE
    /\ cx_threads' = [t \in 1..Len(cx_threads) |->
                        IF cx_threads[t].pc # "m_done"
                        THEN [cx_threads[t] EXCEPT !.stopped = TRUE]
                        ELSE cx_threads[t]]
    /\ cx_spc' = IF cx_thread # 0 THEN "s_join" ELSE "s_idle"
    /\ UNCHANGED <<roles_config, cx_thread, last_window_title, last_role,
                   context_changed, schedVars, newVars, bufVars, tmVars, kbVars,
                   psVars, orVars>>

\* ContextSniffer.stop(): self._thread.join(timeout=1.0) returns, the
\* thread having ended or the second having passed.
CxStopJoin ==
    /\ cx_spc = "s_join"
    /\ cx_spc' = "s_idle"
    /\ UNCHANGED <<roles_config, cx_running, cx_thread, last_window_title,
                   last_role, cx_threads, cx_calls, context_changed,
                   schedVars, newVars, bufVars, tmVars, kbVars, psVars, orVars>>

\* _monitor_loop on thread t: while self._running
MonitorWhile(t) ==
    /\ cx_threads[t].pc = "m_while"
    /\ cx_running => cx_threads[t].ticks < MaxTicks
    /\ cx_threads' = [cx_threads EXCEPT ![t].pc =
                         IF cx_running THEN "m_fetch" ELSE "m_done"]
    /\ UNCHANGED <<roles_config, cx_running, cx_thread, last_window_title,
                   last_role, cx_spc, cx_calls, context_changed,
                   schedVars, newVars, bufVars, tmVars, kbVars, psVars, orVars>>

\* A loop that ends when the title could not be read.
AfterFetchStrict(current_title, last_title) ==
    IF current_title = <<>> THEN "m_done"
    ELSE IF current_title # last_title THEN "m_set" ELSE "m_sleep"

\* _monitor_loop: where `if current_title and current_title !=
\* self._last_window_title` leads.
AfterFetch(current_title, last_title) ==
    IF current_title # <<>> /\ current_title # last_title
    THEN "m_set" ELSE "m_sleep"

\* _monitor_loop on thread t: current_title = _get_active_window_title()
\* and `if current_title and current_title != self._last_window_title`.
MonitorFetch(t, w) ==
    /\ cx_threads[t].pc = "m_fetch"
    /\ LET current_title == GetActiveWindowTitle(w)
       IN cx_threads' = [cx_threads EXCEPT
              ![t].prev = cx_threads[t].title,
              ![t].title = current_title,
              ![t].role = "",
              ![t].was = LastEmittedRole,
              ![t].emitted = FALSE,
              ![t].ticks = @ + 1,
              ![t].pc = AfterFetch(current_title, last_window_title)]
    /\ UNCHANGED <<roles_config, cx_running, cx_thread, last_window_title,
                   last_role, cx_spc, cx_calls, context_changed,
                   schedVars, newVars, bufVars, tmVars, kbVars, psVars, orVars>>

\* _monitor_loop on thread t: self._last_window_title = current_title
MonitorSetTitle(t) ==
    /\ cx_threads[t].pc = "m_set"
    /\ last_window_title' = cx_threads[t].title
    /\ cx_threads' = [cx_threads EXCEPT ![t].pc = "m_class"]
    /\ UNCHANGED <<roles_config, cx_running, cx_thread, last_role, cx_spc,
                   cx_calls, context_changed, schedVars, newVars, bufVars, tmVars,
                   kbVars, psVars, orVars>>

\* _process_context_change on thread t: the loop over the roles and
\* `if detected_role != self._last_role`.
MonitorClassify(t) ==
    /\ cx_threads[t].pc = "m_class"
    /\ LET detected_role == DetectRole(roles_config, cx_threads[t].title)
       IN cx_threads' = [cx_threads EXCEPT
              ![t].role = detected_role,
              ![t].pc = IF detected_role # last_role
                        THEN "m_setrole" ELSE "m_sleep"]
    /\ UNCHANGED <<roles_config, cx_running, cx_thread, last_window_title,
                   last_role, cx_spc, cx_calls, context_changed,
                   schedVars, newVars, bufVars, tmVars, kbVars, psVars, orVars>>

\* _process_context_change on thread t: self._last_role = detected_role
MonitorSetRole(t) ==
    /\ cx_threads[t].pc = "m_setrole"
    /\ last_role' = cx_threads[t].role
    /\ cx_threads' = [cx_threads EXCEPT ![t].pc = "m_emit"]
    /\ UNCHANGED <<roles_config, cx_running, cx_thread, last_window_title,
                   cx_spc, cx_calls, context_changed, schedVars, newVars, bufVars,
                   tmVars, kbVars, psVars, orVars>>

\* _process_context_change on thread t:
\* self.context_changed.emit(window_title, detected_role)
MonitorEmit(t) ==
    /\ cx_threads[t].pc = "m_emit"
    /\ context_changed' = Append(context_changed,
                                 [title |-> cx_threads[t].title,
                                  role |-> cx_threads[t].role])
    /\ cx_threads' = [cx_threads EXCEPT ![t].pc = "m_sleep",
                                        ![t].emitted = TRUE]
    /\ UNCHANGED <<roles_config, cx_running, cx_thread, last_window_title,
                   last_role, cx_spc, cx_calls, schedVars, newVars, bufVars, tmVars,
                   kbVars, psVars, orVars>>

\* _monitor_loop on thread t: time.sleep(self.check_interval) returns.
MonitorSleep(t) ==
    /\ cx_threads[t].pc = "m_sleep"
    /\ cx_threads' = [cx_threads EXCEPT ![t].pc = "m_while"]
    /\ UNCHANGED <<roles_config, cx_running, cx_thread, last_window_title,
                   last_role, cx_spc, cx_calls, context_changed,
                   schedVars, newVars, bufVars, tmVars, kbVars, psVars, orVars>>

MonitorLoop(t) ==
    \/ MonitorWhile(t)
    \/ \E w \in Windows : MonitorFetch(t, w)
    \/ MonitorSetTitle(t)
    \/ MonitorClassify(t)
    \/ MonitorSetRole(t)
    \/ MonitorEmit(t)
    \/ MonitorSleep(t)

PollNext ==
    \/ CxStart
    \/ CxStop
    \/ CxStopJoin
    \/ \E t \in 1..Len(cx_threads) : MonitorLoop(t)

PollInit ==
    /\ CoreInit(DefaultQueueSize)
    /\ ParserInit(<<>>)
    /\ \E table \in RoleTables : SnifferInit(table)
    /\ AssistantInit

PollSpec == PollInit /\ [][PollNext]_vars

\* The role has a keyword occurring in the title, whatever the case of the
\* letters.
RoleMatches(r, title) ==
    \E a \in 1..Len(r.apps) :
        \E off \in 0..Len(title) :
            /\ off + Len(r.apps[a]) <= Len(title)
            /\ \A j \in 1..Len(r.apps[a]) :
                  Lower(r.apps[a][j]) = Lower(title[off + j])

\* The first role of the table that matches the title, else the default.
Classified(table, title) ==
    IF \E i \in 1..Len(table) : RoleMatches(table[i], title)
    THEN table[CHOOSE i \in 1..Len(table) :
                 /\ RoleMatches(table[i], title)
                 /\ \A j \in 1..(i - 1) : ~RoleMatches(table[j], title)].role
    ELSE default_role

\* C23: the role detected for a title is the first role in table order with
\* a keyword that occurs in the title as a case-insensitive substring, and
\* the default role when no role has one.
C23_FirstMatchingRole ==
    \A t \in 1..Len(cx_threads) :
        cx_threads[t].role # "" =>
            cx_threads[t].role = Classified(roles_config, cx_threads[t].title)

\* Title 'me' under the table {code: ['ed'], prose: ['xx', 'M']}: the second
\* role is detected, by its second keyword and across a difference of case.
C23_Witness ==
    \E t \in 1..Len(cx_threads) :
        /\ cx_threads[t].role = "prose"
        /\ cx_threads[t].title = <<"m", "e">>
        /\ roles_config[1].role = "code"

\* C24: a tick that read a title emits context_changed exactly when the
\* title differs from the one of the tick before and its role differs from
\* the role emitted last (the default role before any emission); so no two
\* consecutive emissions carry the same role.
C24_EmitsOnRoleChange ==
    /\ \A i \in 1..Len(context_changed) :
          context_changed[i].role #
              (IF i = 1 THEN default_role ELSE context_changed[i - 1].role)
    /\ \A t \in 1..Len(cx_threads) :
          cx_threads[t].pc = "m_sleep" /\ cx_threads[t].title # <<>> =>
              (cx_threads[t].emitted <=>
                  /\ cx_threads[t].title # cx_threads[t].prev
                  /\ Classified(roles_config, cx_threads[t].title)
                        # cx_threads[t].was)

\* C25: a tick whose title could not be read (the empty title) changes
\* neither the last title nor the last role, emits nothing and goes on to
\* the sleep; the sleep is followed by the loop test; and a polling thread
\* ends only at a loop test that finds the poller stopped.
C25_FailedTickIsSoft ==
    [][ \A t \in 1..Len(cx_threads) :
          /\ (cx_threads[t].pc = "m_fetch" /\ cx_threads'[t].pc # "m_fetch"
                /\ cx_threads'[t].title = <<>>)
                => /\ cx_threads'[t].pc = "m_sleep"
                   /\ UNCHANGED <<last_window_title, last_role, context_changed>>
          /\ (cx_threads[t].pc = "m_sleep" /\ cx_threads'[t].pc # "m_sleep")
                => cx_threads'[t].pc = "m_while"
          /\ (cx_threads[t].pc # "m_done" /\ cx_threads'[t].pc = "m_done")
                => cx_threads[t].pc = "m_while" /\ ~cx_running
      ]_vars

\* A thread whose first tick failed is in its second tick, with a title.
C25_Witness ==
    \E t \in 1..Len(cx_threads) :
        /\ cx_threads[t].ticks = 2
        /\ cx_threads[t].prev = <<>>
        /\ cx_threads[t].title # <<>>

\* C26: stop() can always return from its join, and a polling thread that
\* was alive when stop() was called does not begin another tick.
C26_StopEndsPolling ==
    [][ /\ cx_spc = "s_join" => ENABLED CxStopJoin
        /\ \A t \in 1..Len(cx_threads) :
              cx_threads[t].pc = "m_while" /\ cx_threads[t].stopped
                  => cx_threads'[t].pc \in {"m_while", "m_done"}
      ]_vars

\* ------------------------------------------------------------ WritingAssistant
\* Number of appends to the buffer in a run of the assistant.
MaxAssistOps == 2
\* Number of requests _request_generation builds in a run.
MaxBuilt == 2
\* time.time() when the process starts, in clock ticks.
ProcessStart == 5

\* time.time()
TimeNow == ProcessStart + now

\* keyboard.enabled, by default True.
auto_completion_enabled == TRUE

\* Ids of the requests a dialog adds to the scheduler itself (kind writing).
DialogIds == {-1}
\* Text typed, and captured with a trigger key, in a run of the assistant.
AssistTexts == {<<"a", "b">>}
\* Results of a generation: ' ', ' a', 'ab'.
Results == {<<" ">>, <<" ", "a">>, <<"a", "b">>}
\* Roles the sniffer reports.
Roles == {"general", "code"}

\* priority=1 if trigger_type == "manual" else 2
PriorityOf(trigger_type) == IF trigger_type = "manual" THEN 1 ELSE 2

\* _request_generation: the GenerationRequest, with a fresh uuid; `at` is
\* the time its trigger was decided on and `put` the time of add_request.
NewRequest(text_context, trigger_type, at) ==
    [id |-> Len(built) + 1, trigger |-> trigger_type,
     priority |-> PriorityOf(trigger_type), prompt |-> text_context,
     role |-> current_app_context, generation_type |-> "completion",
     at |-> at, put |-> TimeNow, accepted |-> FALSE]

\* self.active_requests[req_id] = "completion"
Recorded(table, id) ==
    [i \in DOMAIN table \cup {id} |-> IF i = id THEN "completion" ELSE table[i]]

\* self.active_requests.pop(request_id)
Popped(table, id) == [i \in DOMAIN table \ {id} |-> table[i]]

\* _request_generation on the main thread; add_request answers `accepted`.
RequestGeneration(text_context, trigger_type, accepted) ==
    /\ Len(built) < MaxBuilt
    /\ built' = Append(built, [NewRequest(text_context, trigger_type, TimeNow)
                                  EXCEPT !.accepted = accepted])
    /\ assistant_requests' =
          IF accepted THEN Recorded(assistant_requests, Len(built) + 1)
          ELSE assistant_requests

\* _handle_buffer_ready on the timer thread of call i: the two tests.
HandlerCheck(i) ==
    /\ i <= Len(calls)
    /\ hpc[i].pc = "h_new"
    /\ hpc' = [hpc EXCEPT ![i].at = TimeNow, ![i].pc =
                 IF is_paused \/ ~enabled \/ Strip(calls[i].ctx) = <<>>
                 THEN "h_done"
                 ELSE IF TimeNow - last_suggestion_time < suggestion_cooldown
                 THEN "h_done" ELSE "h_set"]
    /\ UNCHANGED <<enabled, is_paused, last_suggestion_time,
                   assistant_requests, current_app_context, built, completed,
                   lastDone, suggestion_ready, schedVars, newVars, bufVars, tmVars,
                   kbVars, psVars, cxVars>>

\* _handle_buffer_ready: self.last_suggestion_time = time.time()
HandlerSet(i) ==
    /\ hpc[i].pc = "h_set"
    /\ last_suggestion_time' = TimeNow
    /\ hpc' = [hpc EXCEPT ![i].pc = "h_req"]
    /\ UNCHANGED <<enabled, is_paused, assistant_requests,
                   current_app_context, built, completed, lastDone,
                   suggestion_ready, schedVars, newVars, bufVars, tmVars, kbVars,
                   psVars, cxVars>>

\* _request_generation on the timer thread: the request is built and
\* add_request answers `accepted`.
HandlerRequest(i, accepted) ==
    /\ hpc[i].pc = "h_req"
    /\ Len(built) < MaxBuilt
    /\ built' = Append(built, [NewRequest(calls[i].ctx, "auto", hpc[i].at)
                                  EXCEPT !.accepted = accepted])
    /\ hpc' = [hpc EXCEPT ![i].id = Len(built) + 1,
                          ![i].pc = IF accepted THEN "h_rec" ELSE "h_done"]
    /\ UNCHANGED <<enabled, is_paused, last_suggestion_time,
                   assistant_requests, current_app_context, completed,
                   lastDone, suggestion_ready, schedVars, newVars, bufVars, tmVars,
                   kbVars, psVars, cxVars>>

\* _request_generation on the timer thread:
\* self.active_requests[req_id] = "completion"
HandlerRecord(i) ==
    /\ hpc[i].pc = "h_rec"
    /\ assistant_requests' = Recorded(assistant_requests, hpc[i].id)
    /\ hpc' = [hpc EXCEPT ![i].pc = "h_done"]
    /\ UNCHANGED <<enabled, is_paused, last_suggestion_time,
                   current_app_context, built, completed, lastDone,
                   suggestion_ready, schedVars, newVars, bufVars, tmVars, kbVars,
                   psVars, cxVars>>

\* _handle_manual_trigger(text), on the main thread
HandleManualTrigger(text, accepted) ==
    /\ ~is_paused
    /\ enabled /\ Strip(text) # <<>>
    /\ RequestGeneration(text, "manual", accepted)
    /\ UNCHANGED <<enabled, is_paused, last_suggestion_time,
                   current_app_context, hpc, completed, lastDone,
                   suggestion_ready, schedVars, newVars, bufVars, tmVars, kbVars,
                   psVars, cxVars>>

\* trigger_manual_completion (hotkey quick_complete), on the main thread
TriggerManualCompletion(accepted) ==
    /\ Strip(buffer) # <<>>
    /\ RequestGeneration(Strip(buffer), "manual", accepted)
    /\ UNCHANGED <<enabled, is_paused, last_suggestion_time,
                   current_app_context, hpc, completed, lastDone,
                   suggestion_ready, schedVars, newVars, bufVars, tmVars, kbVars,
                   psVars, cxVars>>

\* toggle_enabled (hotkey toggle_assistant): the keyboard monitor is
\* started or stopped.
ToggleEnabled ==
    /\ enabled' = ~enabled
    /\ IF enabled' /\ auto_completion_enabled THEN StartBody ELSE StopBody
    /\ UNCHANGED <<is_paused, last_suggestion_time, assistant_requests,
                   current_app_context, hpc, built, completed, lastDone,
                   suggestion_ready, schedVars, newVars, bufVars, tmVars, psVars,
                   cxVars>>

\* pause_monitoring: keyboard_monitor.pause() and text_buffer.clear()
PauseMonitoring ==
    /\ is_paused' = TRUE
    /\ paused' = TRUE
    /\ ClearBody
    /\ UNCHANGED <<kb_running, stop_event, listener, input_queue,
                   current_modifiers, procs, ppc, evCount, starts, stops,
                   handled, lastEv, hotkey_triggered, text_captured,
                   enabled, last_suggestion_time, assistant_requests,
                   current_app_context, hpc, built, completed, lastDone,
                   suggestion_ready, schedVars, newVars, psVars, cxVars>>

\* resume_monitoring
ResumeMonitoring ==
    /\ is_paused
    /\ is_paused' = FALSE
    /\ paused' = IF enabled /\ auto_completion_enabled THEN FALSE ELSE paused
    /\ UNCHANGED <<kb_running, stop_event, listener, input_queue,
                   current_modifiers, procs, ppc, evCount, starts, stops,
                   handled, lastEv, hotkey_triggered, text_captured,
                   enabled, last_suggestion_time, assistant_requests,
                   current_app_context, hpc, built, completed, lastDone,
                   suggestion_ready, schedVars, newVars, bufVars, tmVars, psVars,
                   cxVars>>

\* _handle_context_change(new_app_name, detected_role), on the main thread
HandleContextChange(detected_role) ==
    /\ current_app_context # detected_role
    /\ current_app_context' = detected_role
    /\ UNCHANGED <<enabled, is_paused, last_suggestion_time,
                   assistant_requests, hpc, built, completed, lastDone,
                   suggestion_ready, schedVars, newVars, bufVars, tmVars, kbVars,
                   psVars, cxVars>>

\* The result shown whatever its blanks and whatever the tag.
SuggestionUntrimmed(req_type, result) ==
    IF result # <<>> THEN <<result>> ELSE <<>>

\* _handle_generation_completed, for a tracked id: the suggestion_ready
\* emissions.
SuggestionFor(req_type, result) ==
    IF req_type = "completion" /\ Strip(result) # <<>>
    THEN <<Strip(result)>> ELSE <<>>

\* Ids the scheduler may report as finished: accepted and not yet reported.
Reportable ==
    ({i \in 1..Len(built) : built[i].accepted} \cup DialogIds) \ completed

\* _handle_generation_completed(request_id, result), on the main thread
HandleGenerationCompleted(request_id, result) ==
    /\ request_id \in Reportable
    /\ completed' = completed \cup {request_id}
    /\ lastDone' = [kind |-> "completed", id |-> request_id,
                    result |-> result,
                    tracked |-> request_id \in DOMAIN assistant_requests]
    /\ IF request_id \in DOMAIN assistant_requests
       THEN /\ assistant_requests' = Popped(assistant_requests, request_id)
            /\ suggestion_ready' =
                  SuggestionFor(assistant_requests[request_id], result)
       ELSE /\ suggestion_ready' = <<>>
            /\ UNCHANGED assistant_requests
    /\ UNCHANGED <<enabled, is_paused, last_suggestion_time,
                   current_app_context, hpc, built, schedVars, newVars, bufVars,
                   tmVars, kbVars, psVars, cxVars>>

\* _handle_generation_failed(request_id, error), on the main thread
HandleGenerationFailed(request_id) ==
    /\ request_id \in Reportable
    /\ completed' = completed \cup {request_id}
    /\ lastDone' = [kind |-> "failed", id |-> request_id, result |-> <<>>,
                    tracked |-> request_id \in DOMAIN assistant_requests]
    /\ suggestion_ready' = <<>>
    /\ assistant_requests' = IF request_id \in DOMAIN assistant_requests
                             THEN Popped(assistant_requests, request_id)
                             ELSE assistant_requests
    /\ UNCHANGED <<enabled, is_paused, last_suggestion_time,
                   current_app_context, hpc, built, schedVars, newVars, bufVars,
                   tmVars, kbVars, psVars, cxVars>>

\* WritingAssistant.__init__ has run: the sniffer and the keyboard monitor
\* are started.
AssistInit ==
    /\ ConfigInit("general")
    /\ SchedInit(DefaultQueueSize)
    /\ BufferInit
    /\ kb_running = TRUE
    /\ paused = FALSE
    /\ stop_event = FALSE
    /\ listener = TRUE
    /\ input_queue = <<>>
    /\ current_modifiers = {}
    /\ procs = <<[pc |-> "c_loop", ev |-> NoEv]>>
    /\ ppc = [pc |-> "p_idle", ev |-> NoEv]
    /\ evCount = 0
    /\ starts = 1
    /\ stops = 0
    /\ handled = <<>>
    /\ lastEv = NoEv
    /\ hotkey_triggered = <<>>
    /\ text_captured = <<>>
    /\ ParserInit(<<>>)
    /\ roles_config = <<>>
    /\ cx_running = TRUE
    /\ cx_thread = 1
    /\ last_window_title = <<>>
    /\ last_role = default_role
    /\ cx_threads = <<NewMonitor>>
    /\ cx_spc = "s_idle"
    /\ cx_calls = [starts |-> 1, stops |-> 0]
    /\ context_changed = <<>>
    /\ AssistantInit

\* Text reaches the buffer from a keyboard monitor.
AssistAppend(text) == bufOps < MaxAssistOps /\ append(text)

HandlerNext ==
    \E i \in 1..MaxBufOps :
        \/ HandlerCheck(i)
        \/ HandlerSet(i)
        \/ \E accepted \in BOOLEAN : HandlerRequest(i, accepted)
        \/ HandlerRecord(i)

\* The debounce-ready path: typing, the timer threads and their handlers,
\* pause, resume, enable and the role changes.
AssistNext ==
    \/ \E text \in AssistTexts : AssistAppend(text)
    \/ Tick
    \/ TimerNext
    \/ HandlerNext
    \/ ToggleEnabled
    \/ PauseMonitoring
    \/ ResumeMonitoring
    \/ \E role \in Roles : HandleContextChange(role)

AssistSpec == AssistInit /\ [][AssistNext]_vars

\* The requests of the main thread and the scheduler's reports on them.
ReplyNext ==
    \/ \E text \in AssistTexts : AssistAppend(text)
    \/ \E text \in AssistTexts : \E accepted \in BOOLEAN :
          HandleManualTrigger(text, accepted)
    \/ \E accepted \in BOOLEAN : TriggerManualCompletion(accepted)
    \/ \E role \in Roles : HandleContextChange(role)
    \/ \E id \in 1..MaxBuilt \cup DialogIds : \E result \in Results :
          HandleGenerationCompleted(id, result)
    \/ \E id \in 1..MaxBuilt \cup DialogIds : HandleGenerationFailed(id)

ReplySpec == AssistInit /\ [][ReplyNext]_vars

\* The automatic requests enqueued so far, by position in `built`.
AutoBuilt ==
    {i \in 1..Len(built) : built[i].trigger = "auto" /\ built[i].accepted}

\* C27: no two automatic requests are enqueued less than one cooldown
\* apart, whether the time of a request is taken where its handler tested
\* the cooldown or where it called add_request.
C27_CooldownBetweenAuto ==
    \A i \in AutoBuilt : \A j \in AutoBuilt :
        i < j =>
            \/ built[j].at - built[i].at >= suggestion_cooldown
            \/ built[j].put - built[i].put >= suggestion_cooldown

\* C29: a change of role leaves the rolling buffer empty and without a
\* pending debounce timer.
C29_RoleChangeClearsBuffer ==
    [][ current_app_context' # current_app_context
          => buffer' = <<>> /\ debounce_timer' = 0 ]_vars

\* The text between the first and the last character that is not a blank.
Trimmed(str) ==
    LET solid == {k \in 1..Len(str) : str[k] \notin Whitespace}
    IN IF solid = {} THEN <<>>
       ELSE SubSeq(str, CHOOSE a \in solid : \A b \in solid : a <= b,
                        CHOOSE a \in solid : \A b \in solid : a >= b)

\* C30: handling a completion event emits suggestion_ready, with the trimmed
\* result, exactly when the id is in the assistant's table with the tag
\* completion and the trimmed result is not empty; for an id that is not in
\* the table nothing is emitted and no field of the assistant changes, as
\* for every request a dialog added itself.
C30_SuggestionOnlyForTracked ==
    [][ (completed' # completed /\ lastDone'.kind = "completed") =>
          LET id == lastDone'.id
              tracked == /\ id \in DOMAIN assistant_requests
                         /\ assistant_requests[id] = "completion"
          IN /\ suggestion_ready' =
                    IF tracked /\ Trimmed(lastDone'.result) # <<>>
                    THEN <<Trimmed(lastDone'.result)>> ELSE <<>>
             /\ id \notin DOMAIN assistant_requests =>
                    UNCHANGED <<enabled, is_paused, last_suggestion_time,
                                assistant_requests, current_app_context,
                                built>>
             /\ id \in DialogIds => suggestion_ready' = <<>>
      ]_vars

\* The completion of a tracked request with result ' a' was handled and the
\* suggestion 'a' emitted.
C30_Witness ==
    /\ lastDone.kind = "completed"
    /\ lastDone.tracked
    /\ lastDone.result = <<" ", "a">>
    /\ suggestion_ready = << <<"a">> >>

\* cancel_request is inside its refill put(item) on a full queue, holding
\* the mutex.
CancelBlocked ==
    cpc = "c_refill" /\ cTemp # <<>> /\ QFull(request_queue) /\ mutex = "cancel"

\* C36: no thread is blocked on the full queue while it holds the mutex the
\* worker is waiting for.
C36_NoBlockedMutexHolder == ~(CancelBlocked /\ wpc = "w_lock")

\* C34: whenever the assistant is enabled and not paused, the keyboard
\* monitor is running and its own paused flag is false.
C34_EnabledMeansCapturing ==
    (enabled /\ ~is_paused) => (kb_running /\ ~paused)

\* ============================================================ role hand-over
\* Values of context_awareness.default_role.
DefaultRoles == {"general", "code"}

\* The context_changed emission next in the main thread's event queue is
\* delivered: _handle_context_change(new_app_name, detected_role).
DeliverContextChange ==
    /\ cx_delivered < Len(context_changed)
    /\ cx_delivered' = cx_delivered + 1
    /\ LET detected_role == context_changed[cx_delivered + 1].role
       IN current_app_context' =
             IF current_app_context # detected_role THEN detected_role
             ELSE current_app_context
    /\ UNCHANGED <<enabled, is_paused, last_suggestion_time,
                   assistant_requests, hpc, built, completed, lastDone,
                   suggestion_ready, default_role, app_running, app_queue,
                   app_proc, app_modifiers, app_hotkey, main_queue, recorded,
                   owed, hookVars, schedVars, bufVars, tmVars, kbVars, psVars,
                   cxVars>>

\* WritingAssistant.__init__ has constructed and started the sniffer, for a
\* configured default role and role table.
RoleInit ==
    /\ \E role \in DefaultRoles : ConfigInit(role)
    /\ SchedInit(DefaultQueueSize)
    /\ BufferInit
    /\ KeyboardInit
    /\ ParserInit(<<>>)
    /\ \E table \in RoleTables : roles_config = table
    /\ cx_running = TRUE
    /\ cx_thread = 1
    /\ last_window_title = <<>>
    /\ last_role = default_role
    /\ cx_threads = <<NewMonitor>>
    /\ cx_spc = "s_idle"
    /\ cx_calls = [starts |-> 1, stops |-> 0]
    /\ context_changed = <<>>
    /\ AssistantInit

RoleNext ==
    \/ MonitorLoop(1)
    \/ DeliverContextChange

RoleSpec == RoleInit /\ [][RoleNext]_vars

\* C40: once every emitted role change has been delivered, the assistant's
\* current role is the role the sniffer classified last, from start-up on and
\* for every configured default role.
C40_RoleFollowsSniffer ==
    ( /\ cx_delivered = Len(context_changed)
      /\ \A t \in 1..Len(cx_threads) : cx_threads[t].pc # "m_emit" )
    => current_app_context = last_role

\* ============================================================ held modifiers
\* A key is pressed or released while no Listener is started: no callback
\* runs.
KeyUnseen(e) ==
    /\ ~listener
    /\ ppc.pc = "p_idle"
    /\ evCount < MaxHookEvents
    /\ evCount' = evCount + 1
    /\ held' = HeldAfter(e, FALSE)
    /\ UNCHANGED <<kb_running, paused, stop_event, listener, input_queue,
                   current_modifiers, procs, ppc, starts, stops, handled,
                   lastEv, hotkey_triggered, text_captured, schedVars,
                   appVars, typed, extVars, bufVars, tmVars>>

\* The monitor threads and the keyboard, used whether or not the monitor is
\* started.
HeldNext ==
    \/ MonitorNext
    \/ \E e \in HookEvents : KeyUnseen(e)

HeldSpec == Init /\ [][HeldNext]_vars

\* Every event delivered has been handled and the monitor is started.
KeyboardQuiet ==
    /\ kb_running
    /\ input_queue = <<>>
    /\ ppc.pc = "p_idle"
    /\ \A p \in 1..Len(procs) : procs[p].pc # "c_handle"

\* C38: once the delivered events are handled, current_modifiers holds no
\* key but the modifier keys physically held (press delivered, no later
\* release), also after stop() has cleared the queue and start() was called
\* again: a modifier released while the monitor was stopped is not in it.
C38_ModifiersAreHeld == KeyboardQuiet => current_modifiers \subseteq held

\* ============================================================ the application
\* Key events of a run of the application: 'a', enter, backspace.
AppEvents ==
    {[type |-> "press", key |-> CharKey("a")],
     [type |-> "press", key |-> SpecialKey("enter")],
     [type |-> "press", key |-> SpecialKey("backspace")]}

\* The OS hook calls _on_press_producer / _on_release_producer of every
\* started Listener: each monitor that is running puts the event in its own
\* queue.
HookKey(e) ==
    /\ evCount < MaxHookEvents
    /\ ppc.pc = "p_idle"
    /\ evCount' = evCount + 1
    /\ input_queue' = IF listener /\ kb_running
                      THEN Append(input_queue,
                                  KeyEvent(evCount + 1, e.type, e.key))
                      ELSE input_queue
    /\ app_queue' = IF app_running
                    THEN Append(app_queue,
                                KeyEvent(evCount + 1, e.type, e.key))
                    ELSE app_queue
    /\ typed' = IF e.type = "press" THEN typed \o KeyToText(e.key) ELSE typed
    /\ held' = HeldAfter(e, listener \/ app_running)
    /\ UNCHANGED <<kb_running, paused, stop_event, listener,
                   current_modifiers, procs, ppc, starts, stops, handled,
                   lastEv, hotkey_triggered, text_captured, default_role,
                   app_running, app_proc, app_modifiers, app_hotkey,
                   main_queue, cx_delivered, recorded, owed, schedVars,
                   extVars, bufVars, tmVars>>

\* _process_queue of the assistant's monitor on thread p: the press or
\* release logic for its event; a text_captured emission is queued for the
\* main thread, where _handle_manual_trigger is connected.
AssistantHandle(p) ==
    /\ procs[p].pc = "c_handle"
    /\ IF procs[p].ev.type = "press"
       THEN PressLogic(procs[p].ev.key)
       ELSE ReleaseLogic(procs[p].ev.key)
    /\ handled' = Append(handled, procs[p].ev.id)
    /\ procs' = [procs EXCEPT ![p] = [pc |-> "c_loop", ev |-> NoEv]]
    /\ main_queue' = main_queue \o text_captured'
    /\ UNCHANGED <<kb_running, paused, stop_event, listener, input_queue, ppc,
                   evCount, starts, stops, default_role, app_running,
                   app_queue, app_proc, app_modifiers, app_hotkey,
                   cx_delivered, recorded, owed, hookVars, schedVars, extVars>>

\* _process_queue of the application's monitor: input_queue.get() returns
\* the oldest event.
AppGet ==
    /\ app_proc.pc = "c_get"
    /\ app_queue # <<>>
    /\ app_proc' = [pc |-> "c_handle", ev |-> Head(app_queue)]
    /\ app_queue' = Tail(app_queue)
    /\ UNCHANGED <<default_role, app_running, app_modifiers, app_hotkey,
                   main_queue, cx_delivered, recorded, owed, hookVars, schedVars,
                   extVars, kbVars, bufVars, tmVars>>

\* _handle_press_logic / _handle_release_logic of the application's monitor:
\* its paused flag is never set, its text_captured signal is connected to
\* nothing, its text buffer is the assistant's.
AppLogic(ev) ==
    LET key == ev.key
        mods == IF ev.type = "release"
                THEN app_modifiers \ {GetKeyName(key)}
                ELSE IF IsModifier(key)
                THEN app_modifiers \cup {GetKeyName(key)}
                ELSE app_modifiers
        hot == IF ev.type = "press" THEN CheckHotkeys(key, mods) ELSE <<>>
    IN /\ app_modifiers' = mods
       /\ app_hotkey' = hot
       /\ IF ev.type = "release" \/ hot # <<>>
          THEN UNCHANGED <<bufVars, tmVars>>
          ELSE IF IsNavigation(key) THEN ClearBody
          ELSE IF KeyToText(key) # <<>> THEN AppendBody(KeyToText(key))
          ELSE IF key = SpecialKey("backspace") THEN BackspaceBody
          ELSE UNCHANGED <<bufVars, tmVars>>

\* _process_queue of the application's monitor: the logic for its event.
AppHandle ==
    /\ app_proc.pc = "c_handle"
    /\ AppLogic(app_proc.ev)
    /\ app_proc' = [pc |-> "c_get", ev |-> NoEv]
    /\ UNCHANGED <<default_role, app_running, app_queue, main_queue,
                   cx_delivered, recorded, owed, hookVars, schedVars, extVars,
                   kbVars>>

\* The text_captured emission next in the main thread's event queue is
\* delivered: _handle_manual_trigger(text); add_request answers `accepted`.
DeliverCaptured(accepted) ==
    /\ main_queue # <<>>
    /\ main_queue' = Tail(main_queue)
    /\ IF ~is_paused /\ enabled /\ Strip(Head(main_queue)) # <<>>
       THEN RequestGeneration(Head(main_queue), "manual", accepted)
       ELSE UNCHANGED <<built, assistant_requests>>
    /\ UNCHANGED <<enabled, is_paused, last_suggestion_time,
                   current_app_context, hpc, completed, lastDone,
                   suggestion_ready, default_role, app_running, app_queue,
                   app_proc, app_modifiers, app_hotkey, cx_delivered,
                   recorded, owed, hookVars, schedVars, bufVars, tmVars, kbVars,
                   psVars, cxVars>>

\* The _process_queue threads of the assistant's monitor.
AssistantConsumer ==
    \E p \in 1..Len(procs) :
        \/ ConsumerLoop(p)
        \/ ConsumerGet(p)
        \/ AssistantHandle(p)

\* The steps of the assistant with its own keyboard monitor: keys, the
\* monitor's consumer, the debounce timers and their handlers, the main
\* thread's manual triggers.
BurstNext ==
    \/ \E e \in AppEvents : HookKey(e)
    \/ AssistantConsumer
    \/ Tick
    \/ TimerNext
    \/ HandlerNext
    \/ \E accepted \in BOOLEAN : DeliverCaptured(accepted)

\* WritingAssistant alone, as MainWindow constructs it.
BurstSpec == AssistInit /\ [][BurstNext]_vars

\* InkSageApp.start() has run: MainWindow has built the assistant, then a
\* KeyboardMonitor was constructed on the assistant's text buffer and
\* started.
AppInit ==
    /\ default_role = "general"
    /\ app_running = TRUE
    /\ app_queue = <<>>
    /\ app_proc = [pc |-> "c_get", ev |-> NoEv]
    /\ app_modifiers = {}
    /\ app_hotkey = <<>>
    /\ main_queue = <<>>
    /\ cx_delivered = 0
    /\ recorded = {}
    /\ owed = [t \in Adders |-> 0]
    /\ held = {}
    /\ typed = <<>>
    /\ SchedInit(DefaultQueueSize)
    /\ BufferInit
    /\ kb_running = TRUE
    /\ paused = FALSE
    /\ stop_event = FALSE
    /\ listener = TRUE
    /\ input_queue = <<>>
    /\ current_modifiers = {}
    /\ procs = <<[pc |-> "c_loop", ev |-> NoEv]>>
    /\ ppc = [pc |-> "p_idle", ev |-> NoEv]
    /\ evCount = 0
    /\ starts = 1
    /\ stops = 0
    /\ handled = <<>>
    /\ lastEv = NoEv
    /\ hotkey_triggered = <<>>
    /\ text_captured = <<>>
    /\ ParserInit(<<>>)
    /\ roles_config = <<>>
    /\ cx_running = TRUE
    /\ cx_thread = 1
    /\ last_window_title = <<>>
    /\ last_role = default_role
    /\ cx_threads = <<NewMonitor>>
    /\ cx_spc = "s_idle"
    /\ cx_calls = [starts |-> 1, stops |-> 0]
    /\ context_changed = <<>>
    /\ AssistantInit

\* The application: keys, both keyboard monitors, the main thread's manual
\* triggers, the dialogs' pause and resume.
AppNext ==
    \/ \E e \in AppEvents : HookKey(e)
    \/ AssistantConsumer
    \/ \E accepted \in BOOLEAN : DeliverCaptured(accepted)
    \/ AppGet
    \/ AppHandle
    \/ PauseMonitoring
    \/ ResumeMonitoring

AppSpec == AppInit /\ [][AppNext]_vars

\* C37: no character is appended to the rolling buffer that the OS hook did
\* not deliver as a printable key press: the characters appended so far are
\* never more than the printable presses delivered, each being appended
\* once.
C37_EachKeyAppendedOnce == session_chars <= Len(typed)

\* C33: from the return of pause_monitoring() until resume_monitoring() the
\* rolling buffer stays empty and no request is built from keystrokes.
C33_PausedBufferStaysEmpty ==
    [][ (is_paused /\ is_paused') => (buffer' = <<>> /\ built' = built) ]_vars

\* The requests add_request accepted.
Enqueued == {i \in 1..Len(built) : built[i].accepted}

\* The keys typed so far are one burst of printable keys that ends with its
\* only trigger key.
TriggerEndsBurst ==
    /\ burst
    /\ evCount = Len(typed)
    /\ typed # <<>>
    /\ typed[Len(typed)] = "\n"
    /\ \A k \in 1..(Len(typed) - 1) : typed[k] # "\n"

\* C39: a burst of typing that ends with a trigger key leads to at most one
\* enqueued Completion request.
C39_OneRequestPerBurst == TriggerEndsBurst => Cardinality(Enqueued) <= 1

\* ============================================================ request table
\* Values of performance.max_concurrent_requests.
Capacities == {1, DefaultQueueSize}

\* _request_generation on thread t calls add_request, once the id of its
\* previous call is in the table.
TrackedCall(t) == owed[t] = 0 /\ AddCall(t)

\* add_request on thread t: mutex.lock(); condition.wakeOne();
\* mutex.unlock(); return True.  The caller is about to record the id.
TrackedWake(t) ==
    /\ apc[t] = "a_wake"
    /\ mutex = "free"
    /\ WakeOne
    /\ apc' = [apc EXCEPT ![t] = "a_idle"]
    /\ aReq' = [aReq EXCEPT ![t] = NoReq]
    /\ owed' = [owed EXCEPT ![t] = aReq[t].request_id]
    /\ UNCHANGED <<max_queue_size, request_queue, running, current_request,
                   engine, active_requests, processed_requests, failed_requests,
                   mutex, wpc, aTemp, cpc, cId, cTemp, cFound, spc, nextId,
                   cancels, emitted, open, started, termCount, rejected, evicted,
                   cancelled, cBusy, cMiss, bufVars, tmVars, kbVars, extVars,
                   default_role, app_running, app_queue, app_proc,
                   app_modifiers, app_hotkey, main_queue, cx_delivered,
                   recorded, hookVars>>

\* _request_generation on thread t, after add_request returned True:
\* self.active_requests[req_id] = "completion"
TrackRecord(t) ==
    /\ owed[t] # 0
    /\ assistant_requests' = Recorded(assistant_requests, owed[t])
    /\ recorded' = recorded \cup {owed[t]}
    /\ owed' = [owed EXCEPT ![t] = 0]
    /\ UNCHANGED <<enabled, is_paused, last_suggestion_time,
                   current_app_context, hpc, built, completed, lastDone,
                   suggestion_ready, default_role, app_running, app_queue,
                   app_proc, app_modifiers, app_hotkey, main_queue,
                   cx_delivered, hookVars, schedVars, bufVars, tmVars, kbVars,
                   psVars, cxVars>>

\* Ids with a terminal event the main thread has not handled yet.
Undelivered == {i \in 1..MaxRequests : termCount[i] > 0} \ completed

\* The main thread handles the generation_completed or generation_failed
\* signal of request id (_handle_generation_completed,
\* _handle_generation_failed): it is not inside _request_generation itself.
DeliverTerminal(id) ==
    /\ id \in Undelivered
    /\ apc["ui"] = "a_idle" /\ owed["ui"] = 0
    /\ completed' = completed \cup {id}
    /\ assistant_requests' = IF id \in DOMAIN assistant_requests
                             THEN Popped(assistant_requests, id)
                             ELSE assistant_requests
    /\ UNCHANGED <<enabled, is_paused, last_suggestion_time,
                   current_app_context, hpc, built, lastDone,
                   suggestion_ready, newVars, schedVars, bufVars, tmVars,
                   kbVars, psVars, cxVars>>

\* The scheduler with the assistant as its only caller: the worker, the
\* add_request calls of the timer thread and of the main thread, the
\* recording of the accepted ids and the handling of the terminal events.
TrackNext ==
    \/ WorkerNext
    \/ \E t \in Adders : TrackedCall(t)
    \/ \E t \in Adders : AddDrain(t)
    \/ \E t \in Adders : AddRefill(t)
    \/ \E t \in Adders : AddPut(t)
    \/ \E t \in Adders : TrackedWake(t)
    \/ \E t \in Adders : TrackRecord(t)
    \/ \E id \in 1..MaxRequests : DeliverTerminal(id)

TrackInit == \E capacity \in Capacities : InitWith(capacity)

TrackSpec == TrackInit /\ [][TrackNext]_vars

\* The requests the scheduler holds or has yet to report on: queued, in a
\* caller's temp_items, in process, or finished with the terminal event
\* not yet handled by the main thread.
Outstanding ==
    Ids(request_queue) \cup UNION {Ids(aTemp[t]) : t \in Adders}
      \cup (IF current_request # 0 THEN {current_request} ELSE {})
      \cup Undelivered

\* C31: the assistant's table never holds more ids than the capacity of the
\* scheduler's queue plus the one request in process.
C31_TableWithinCapacity ==
    Cardinality(DOMAIN assistant_requests) <= max_queue_size + 1

\* C32: every id in the assistant's table is the id of a request the
\* scheduler still holds or has yet to report on, so that its terminal
\* event will remove it.
C32_TableIdsOutstanding == DOMAIN assistant_requests \subseteq Outstanding

\* ============================================================ shutdown
\* GenerationWorker.stop(), called again after it has returned:
\* self.running = False
StopAgainCall ==
    /\ spc = "s_done"
    /\ running' = FALSE
    /\ spc' = "s2_wake"
    /\ UNCHANGED <<max_queue_size, request_queue, current_request, engine,
                   active_requests, processed_requests, failed_requests, mutex,
                   woken, wpc, apc, aReq, aTemp, cpc, cId, cTemp, cFound, nextId,
                   cancels, emitted, open, started, termCount, rejected, evicted,
                   cancelled, cBusy, cMiss, otherVars>>

\* the second stop(): mutex.lock(); condition.wakeOne(); mutex.unlock()
StopAgainWake ==
    /\ spc = "s2_wake"
    /\ mutex = "free"
    /\ WakeOne
    /\ spc' = "s2_join"
    /\ UNCHANGED <<max_queue_size, request_queue, running, current_request,
                   engine, active_requests, processed_requests, failed_requests,
                   mutex, wpc, apc, aReq, aTemp, cpc, cId, cTemp, cFound, nextId,
                   cancels, emitted, open, started, termCount, rejected, evicted,
                   cancelled, cBusy, cMiss, otherVars>>

\* the second stop(): self.wait() returns, the thread having ended or
\* never been started.
StopAgainJoin ==
    /\ spc = "s2_join"
    /\ wpc \in {"w_exit", "w_new"}
    /\ spc' = "s2_done"
    /\ UNCHANGED <<max_queue_size, request_queue, running, current_request,
                   engine, active_requests, processed_requests, failed_requests,
                   mutex, woken, wpc, apc, aReq, aTemp, cpc, cId, cTemp, cFound,
                   nextId, cancels, emitted, open, started, termCount, rejected,
                   evicted, cancelled, cBusy, cMiss, otherVars>>

\* stop() on a worker that was never started: QThread.wait() returns at
\* once.
StopJoinNew ==
    /\ spc = "s_join"
    /\ wpc = "w_new"
    /\ spc' = "s_done"
    /\ UNCHANGED <<max_queue_size, request_queue, running, current_request,
                   engine, active_requests, processed_requests, failed_requests,
                   mutex, woken, wpc, apc, aReq, aTemp, cpc, cId, cTemp, cFound,
                   nextId, cancels, emitted, open, started, termCount, rejected,
                   evicted, cancelled, cBusy, cMiss, otherVars>>

\* The components as constructed, every one of them started or none.
ShutInit ==
    \E begun \in BOOLEAN :
        /\ ConfigInit("general")
        /\ SchedInitAt(DefaultQueueSize, IF begun THEN "w_init" ELSE "w_new")
        /\ BufferInit
        /\ kb_running = begun
        /\ paused = FALSE
        /\ stop_event = FALSE
        /\ listener = begun
        /\ input_queue = <<>>
        /\ current_modifiers = {}
        /\ procs = IF begun THEN <<[pc |-> "c_loop", ev |-> NoEv]>> ELSE <<>>
        /\ ppc = [pc |-> "p_idle", ev |-> NoEv]
        /\ evCount = 0
        /\ starts = IF begun THEN 1 ELSE 0
        /\ stops = 0
        /\ handled = <<>>
        /\ lastEv = NoEv
        /\ hotkey_triggered = <<>>
        /\ text_captured = <<>>
        /\ ParserInit(<<>>)
        /\ \E table \in RoleTables : roles_config = table
        /\ cx_running = begun
        /\ cx_thread = IF begun THEN 1 ELSE 0
        /\ last_window_title = <<>>
        /\ last_role = default_role
        /\ cx_threads = IF begun THEN <<NewMonitor>> ELSE <<>>
        /\ cx_spc = "s_idle"
        /\ cx_calls = [starts |-> IF begun THEN 1 ELSE 0, stops |-> 0]
        /\ context_changed = <<>>
        /\ AssistantInit

\* The background threads and the stop() calls, each component's stop()
\* called up to twice.
ShutNext ==
    \/ WorkerInit
    \/ WorkerInitFails
    \/ WorkerWhile
    \/ WorkerLock
    \/ WorkerWake
    \/ WorkerCheck
    \/ WorkerGet
    \/ StopCall
    \/ StopWake
    \/ StopJoin
    \/ StopJoinNew
    \/ StopAgainCall
    \/ StopAgainWake
    \/ StopAgainJoin
    \/ stop
    \/ \E p \in 1..Len(procs) : ConsumerLoop(p)
    \/ \E p \in 1..Len(procs) : ConsumerGet(p)
    \/ CxStop
    \/ CxStopJoin
    \/ \E t \in 1..Len(cx_threads) : MonitorLoop(t)

ShutSpec == ShutInit /\ [][ShutNext]_vars

\* The keyboard monitor as stop() leaves it.
KeyboardStopped ==
    ~kb_running /\ stop_event /\ ~listener /\ input_queue = <<>>

====
